---------------------------- MODULE Spec2Model ----------------------------
(***************************************************************************)
(* A model of robo-mom's indexing and retrieval core: the Markdown chunker *)
(* (src/src/chunk-text.ts), the checksum-gated indexer and the ripgrep     *)
(* search (src/src/env.ts), the lazily constructed embedding pipeline      *)
(* (src/src/llms/embeddings.ts) and the AsyncLocalStorage-backed request   *)
(* and conversation contexts (src/src/context).                            *)
(* Further: the two-channel retrieval queryDocuments                       *)
(* (src/unnamed/part_013) and the glob walk loadMarkdownFilesFromGlob      *)
(* (src/src/env.ts).                                                       *)
(* Further: the request id of log entries (src/src/logger/logger.ts), the *)
(* readFile tool (src/src/llms/tools/read-file.ts) and the chat store's    *)
(* sendUserInputToLLM (src/unnamed/part_003).                              *)
(*                                                                         *)
(* Strings are sequences of one-character strings, so that split, trim,    *)
(* slice and concatenation are computed as the code computes them.         *)
(***************************************************************************)
EXTENDS Integers, Sequences, FiniteSets, TLC

VARIABLES
    \* chunkMarkdown(text, charLimit): one call of the pure function
    chText, chLimit, chChunks, chPc,
    \* the notes directory: each file's content and modification time
    files, mtimes,
    \* the notes table and its identity sequence
    notes, nextId,
    \* the loadMarkdownFileToDb call in progress: its position and locals
    load,
    \* history of the indexer: per file, whether the last call on it
    \* completed and the content is still what that call read; and the
    \* embedding calls and table writes of the call in progress
    indexedClean, callLog,
    \* ... and per file, whether the last call on it stopped between its
    \* delete and its first insert, the content has not changed since, and
    \* no later call has read the file
    crashedEmpty,
    \* src/src/llms/embeddings.ts: the module variable extractorNomicV1, the
    \* generateEmbedding calls in progress, and the pipelines constructed
    extractorNomicV1, embedCalls, pipelines,
    \* executeRipgrepSearch: the call's position and maxResults, the child
    \* process (what it still has to write, its exit code, its pending
    \* events), the captured output and errorOutput, and the returned promise
    rgPc, maxResults, child, output, errorOutput, rgPromise, rgFirst,
    \* ... the options of the call and the argument list given to spawn
    rgOptions, rgArgs,
    \* request and conversation context: the stores of the two
    \* AsyncLocalStorage instances in the running execution context, the call
    \* stack, the async functions (the main script and the units given to
    \* runWithRequestId / runWithConversationId), and the last getter result
    ctxStore, ctxStack, tasks, got,
    \* ... and the entry the last logging call wrote
    logged,
    \* queryDocuments: the rows of the notes table, the call's position and
    \* arguments, the rows of the two channel queries, what the call returned
    \* or threw, and the embedding calls and store queries it has issued
    qStore, qPc, qArgs, filenameResults, contentResults, qResult, qLog,
    \* loadMarkdownFilesFromGlob: the run's position and locals, and its
    \* history (the table when it started, the paths it has had indexed)
    glob, globLog,
    \* the readFile tool: the call in progress, the paths it has given to
    \* fs.readFile and what it returned
    rf,
    \* the chat: the reactive store, the sendUserInputToLLM calls, whether
    \* the API key is set, and the history of pushes to store.messages and of
    \* calls of sendRequestToLLM
    chatStore, chat, apiKeySet, chatLog

chunkVars == <<chText, chLimit, chChunks, chPc>>
indexVars == <<files, mtimes, notes, nextId, load, indexedClean, callLog,
              crashedEmpty>>
embedVars == <<extractorNomicV1, embedCalls, pipelines>>
rgVars == <<rgPc, maxResults, child, output, errorOutput, rgPromise, rgFirst,
           rgOptions, rgArgs>>
ctxVars == <<ctxStore, ctxStack, tasks, got, logged>>
queryVars == <<qStore, qPc, qArgs, filenameResults, contentResults, qResult, qLog>>
globVars == <<glob, globLog>>
readVars == <<rf>>
chatVars == <<chatStore, chat, apiKeySet, chatLog>>
vars == <<chunkVars, indexVars, embedVars, rgVars,
         ctxVars, queryVars, globVars, readVars, chatVars>>

\* What a step of one component leaves alone: the other components.
OnlyChunk == UNCHANGED <<indexVars, embedVars, rgVars, ctxVars, queryVars, globVars,
    readVars, chatVars>>
OnlyIndex == UNCHANGED <<chunkVars, embedVars, rgVars, ctxVars, queryVars, globVars,
    readVars, chatVars>>
OnlyEmbed == UNCHANGED <<chunkVars, indexVars, rgVars, ctxVars, queryVars, globVars,
    readVars, chatVars>>
OnlyRg == UNCHANGED <<chunkVars, indexVars, embedVars, ctxVars, queryVars, globVars,
    readVars, chatVars>>
OnlyCtx == UNCHANGED <<chunkVars, indexVars, embedVars, rgVars, queryVars, globVars,
    readVars, chatVars>>
OnlyQuery == UNCHANGED <<chunkVars, indexVars, embedVars, rgVars, ctxVars, globVars,
    readVars, chatVars>>
\* A step of a loadMarkdownFilesFromGlob run changes the indexer's state too.
OnlyGlob == UNCHANGED <<chunkVars, embedVars, rgVars, ctxVars, queryVars, readVars,
    chatVars>>
OnlyRead == UNCHANGED <<chunkVars, indexVars, embedVars, rgVars, ctxVars, queryVars,
    globVars, chatVars>>
OnlyChat == UNCHANGED <<chunkVars, indexVars, embedVars, rgVars, ctxVars, queryVars,
    globVars, readVars>>

---------------------------------------------------------------------------
(* Strings *)

NL == "\n"
BS == "\\"

\* The characters String.prototype.trim() removes, within the model's alphabet.
WS == {" ", NL}

Range(s) == {s[i] : i \in 1..Len(s)}

SetMin(S) == CHOOSE x \in S : \A y \in S : x <= y
SetMax(S) == CHOOSE x \in S : \A y \in S : x >= y

\* s.trim().length === 0
IsBlank(s) == \A i \in 1..Len(s) : s[i] \in WS

\* s.trim()
Trim(s) ==
    LET keep == {i \in 1..Len(s) : s[i] \notin WS}
    IN  IF keep = {} THEN <<>> ELSE SubSeq(s, SetMin(keep), SetMax(keep))

\* s.slice(from, to) with 0 <= from, 0-based and end-exclusive
Slice(s, from, to) ==
    LET hi == IF to > Len(s) THEN Len(s) ELSE to
    IN  IF from >= hi THEN <<>> ELSE SubSeq(s, from + 1, hi)

\* All strings over alphabet A of length at most n.
StringsUpTo(A, n) == UNION {[1..k -> A] : k \in 0..n}

---------------------------------------------------------------------------
(* src/src/chunk-text.ts *)

\* Bounds of the chunker's inputs.
MaxTextLen == 5
MaxCharLimit == 3

TextAlphabet == {"a", " ", NL, ".", "#"}

\* The deepest nesting of calls the engine's call stack has room for, scaled
\* down with the inputs.
MaxCallDepth == 16

\* What a call gives back: the value it returns, or the RangeError that a
\* call throws when the call stack is full and that nothing here catches.
Returned(v) == [threw |-> FALSE, value |-> v]
RangeError == [threw |-> TRUE, value |-> <<>>]

\* Mutant: the rest always starts at the head of the text.
EndIndexWithOverlap_zero(endIndex, overlap) == 0

\* endIndex - overlap <= 0 ? 0 : endIndex - overlap
EndIndexWithOverlap(endIndex, overlap) ==
    IF endIndex - overlap <= 0 THEN 0 ELSE endIndex - overlap

\* A call of chunkText(text, charLimit), overlap = 0, as the depth-th call
\* on the stack
RECURSIVE chunkTextCall(_, _, _)
chunkTextCall(text, charLimit, depth) ==
    IF depth > MaxCallDepth THEN RangeError
    ELSE IF IsBlank(text) THEN Returned(<<>>)
    ELSE IF Len(text) <= charLimit THEN Returned(<<text>>)
    ELSE LET endIndex == IF Len(text) > charLimit THEN charLimit ELSE Len(text)
             firstChunk == Slice(text, 0, endIndex)
             rest == Slice(text, EndIndexWithOverlap(endIndex, 0), Len(text))
             more == chunkTextCall(rest, charLimit, depth + 1)
         IN  IF more.threw THEN RangeError
             ELSE Returned(<<firstChunk>> \o more.value)

\* chunkText(text, charLimit) with the default overlap of 0
chunkText(text, charLimit) == chunkTextCall(text, charLimit, 1).value

\* The separators array, in order of preference: six heading levels, then
\* paragraph, line and sentence breaks.
NumSeparators == 9

\* separator.toString(): the regular expression's source text
SeparatorToString(k) ==
    CASE k = 1 -> <<"/", "(", "?", "=", "^", "#", " ", ")", "/", "m">>
      [] k = 2 -> <<"/", "(", "?", "=", "^", "#", "#", " ", ")", "/", "m">>
      [] k = 3 -> <<"/", "(", "?", "=", "^", "#", "#", "#", " ", ")", "/", "m">>
      [] k = 4 -> <<"/", "(", "?", "=", "^", "#", "#", "#", "#", " ", ")", "/", "m">>
      [] k = 5 -> <<"/", "(", "?", "=", "^", "#", "#", "#", "#", "#", " ", ")", "/", "m">>
      [] k = 6 -> <<"/", "(", "?", "=", "^", "#", "#", "#", "#", "#", "#", " ", ")", "/", "m">>
      [] k = 7 -> <<"/", BS, "n", BS, "n", "/">>
      [] k = 8 -> <<"/", BS, "n", "/">>
      [] k = 9 -> <<"/", BS, ".", " ", "/">>

\* The text a non-heading separator matches.
SeparatorLiteral(k) ==
    CASE k = 7 -> <<NL, NL>>
      [] k = 8 -> <<NL>>
      [] k = 9 -> <<".", " ">>
      [] OTHER -> <<>>

\* separator.toString().includes("^")
IsHeaderSeparator(k) == "^" \in Range(SeparatorToString(k))

\* .replace(/\(\?=|\)/g, ""): drops every "(?=" and every ")"
RECURSIVE StripLookahead(_)
StripLookahead(s) ==
    IF s = <<>> THEN <<>>
    ELSE IF Len(s) >= 3 /\ SubSeq(s, 1, 3) = <<"(", "?", "=">>
        THEN StripLookahead(SubSeq(s, 4, Len(s)))
    ELSE IF s[1] = ")" THEN StripLookahead(Tail(s))
    ELSE <<s[1]>> \o StripLookahead(Tail(s))

\* separatorStr: "" for a heading separator, else the regular expression's
\* source text with the backslashes and the lookahead brackets removed
SeparatorStr(k) ==
    IF IsHeaderSeparator(k) THEN <<>>
    ELSE StripLookahead(SelectSeq(SeparatorToString(k), LAMBDA c : c # BS))

\* The end (0-based, exclusive) of a match of separator k at 0-based
\* position q of s, or -1 when it does not match there.
MatchEnd(s, k, q) ==
    IF IsHeaderSeparator(k)
    THEN IF /\ (q = 0 \/ s[q] = NL)
            /\ q + k + 1 <= Len(s)
            /\ \A j \in 1..k : s[q + j] = "#"
            /\ s[q + k + 1] = " "
         THEN q ELSE -1
    ELSE LET lit == SeparatorLiteral(k)
         IN  IF q + Len(lit) <= Len(s) /\ SubSeq(s, q + 1, q + Len(lit)) = lit
             THEN q + Len(lit) ELSE -1

\* String.prototype.split(regexp): p is the end of the last match, q the
\* position tried; an empty match at p does not split.
RECURSIVE SplitLoop(_, _, _, _, _)
SplitLoop(s, k, p, q, acc) ==
    IF q >= Len(s) THEN Append(acc, Slice(s, p, Len(s)))
    ELSE LET e == MatchEnd(s, k, q)
         IN  IF e = -1 \/ e = p THEN SplitLoop(s, k, p, q + 1, acc)
             ELSE SplitLoop(s, k, e, e, Append(acc, Slice(s, p, q)))

\* text.split(separator).filter((s) => s.trim().length > 0)
Segments(text, k) ==
    SelectSeq(SplitLoop(text, k, 0, 0, <<>>), LAMBDA s : ~IsBlank(s))

\* segments.length === 1 || segments.every((s) => s.length > charLimit)
SeparatorUnusable(segments, charLimit) ==
    \/ Len(segments) = 1
    \/ \A i \in 1..Len(segments) : Len(segments[i]) > charLimit

\* Mutant: the sub-chunks keep the index the inner call gave them.
PushAll_keepIndex(chunks, subChunks, currentIndex) == chunks \o subChunks

\* chunks.push({content: subChunk.content, index: currentIndex++}) for each
RECURSIVE PushAll(_, _, _)
PushAll(chunks, subChunks, currentIndex) ==
    IF subChunks = <<>> THEN chunks
    ELSE PushAll(Append(chunks, [content |-> Head(subChunks).content,
                                 index |-> currentIndex]),
                 Tail(subChunks), currentIndex + 1)

RECURSIVE chunkMarkdownCall(_, _, _)
RECURSIVE ProcessSegments(_, _, _, _, _, _, _, _)

\* The body of `for (let i = 0; ...)` and the push after it, in the depth-th
\* call on the stack; i is 1-based.
ProcessSegments(segments, k, charLimit, i, chunks, currentChunk, currentIndex, depth) ==
    IF i > Len(segments)
    THEN IF Len(currentChunk) > 0
         THEN Returned(Append(chunks, [content |-> currentChunk,
                                       index |-> currentIndex]))
         ELSE Returned(chunks)
    ELSE
    LET segment == segments[i]
        isHeaderSeparator == IsHeaderSeparator(k)
        separatorStr == SeparatorStr(k)
        segmentWithSeparator ==
            IF i = 1 \/ isHeaderSeparator THEN segment
            ELSE separatorStr \o segment
    IN  IF /\ Len(currentChunk) + Len(segmentWithSeparator) > charLimit
           /\ Len(currentChunk) > 0
        THEN ProcessSegments(segments, k, charLimit, i + 1,
                Append(chunks, [content |-> currentChunk, index |-> currentIndex]),
                segmentWithSeparator, currentIndex + 1, depth)
        ELSE IF Len(segmentWithSeparator) > charLimit
        THEN LET flushed ==
                    IF Len(currentChunk) > 0
                    THEN Append(chunks, [content |-> currentChunk,
                                         index |-> currentIndex])
                    ELSE chunks
                 idx == IF Len(currentChunk) > 0 THEN currentIndex + 1
                        ELSE currentIndex
                 subChunks ==
                    chunkMarkdownCall(segmentWithSeparator, charLimit, depth + 1)
             IN  IF subChunks.threw THEN RangeError
                 ELSE ProcessSegments(segments, k, charLimit, i + 1,
                        PushAll(flushed, subChunks.value, idx), <<>>,
                        idx + Len(subChunks.value), depth)
        ELSE ProcessSegments(segments, k, charLimit, i + 1, chunks,
                (IF Len(currentChunk) > 0 /\ i > 1 /\ ~isHeaderSeparator
                 THEN currentChunk \o separatorStr ELSE currentChunk)
                    \o segment,
                currentIndex, depth)

\* chunkText(text, charLimit).map((content, index) => ({content, index})) in
\* the depth-th call on the stack
FallbackCall(text, charLimit, depth) ==
    LET parts == chunkTextCall(text, charLimit, depth + 1)
    IN  IF parts.threw THEN RangeError
        ELSE Returned([i \in 1..Len(parts.value) |->
                          [content |-> parts.value[i], index |-> i - 1]])

\* chunkText(text, charLimit).map((content, index) => ({content, index}))
FallbackChunks(text, charLimit) == FallbackCall(text, charLimit, 0).value

\* `for (const separator of separators)` from separator k on, then the
\* fixed-size fallback, in the depth-th call on the stack
RECURSIVE TrySeparators(_, _, _, _)
TrySeparators(text, charLimit, k, depth) ==
    IF k > NumSeparators THEN FallbackCall(text, charLimit, depth)
    ELSE LET segments == Segments(text, k)
         IN  IF SeparatorUnusable(segments, charLimit)
             THEN TrySeparators(text, charLimit, k + 1, depth)
             ELSE ProcessSegments(segments, k, charLimit, 1, <<>>, <<>>, 0, depth)

\* Mutant: a blank text is not returned as it is.
FitsCharLimit_unlessBlank(text, charLimit) ==
    Len(text) <= charLimit /\ ~IsBlank(text)

\* text.length <= charLimit
FitsCharLimit(text, charLimit) == Len(text) <= charLimit

\* A call of chunkMarkdown(text, charLimit) as the depth-th call on the stack
chunkMarkdownCall(text, charLimit, depth) ==
    IF depth > MaxCallDepth THEN RangeError
    ELSE IF FitsCharLimit(text, charLimit)
    THEN Returned(<<[content |-> text, index |-> 0]>>)
    ELSE TrySeparators(text, charLimit, 1, depth)

\* chunkMarkdown(text, charLimit), called from the top
chunkMarkdown(text, charLimit) == chunkMarkdownCall(text, charLimit, 1).value

---------------------------------------------------------------------------
(* src/src/env.ts: loadMarkdownFileToDb and the notes table *)

Null == "null"

\* The files of the notes directory.
Filenames == {<<"a", ".", "m", "d">>, <<"b", ".", "m", "d">>}

\* What a file can hold: an optional leading YAML block (front) and the text
\* after it.  A whitespace-only file (its body is empty), a file of one
\* chunk with front matter, and a file of two chunks.
FileContents ==
    { [front |-> Null,   text |-> <<" ", NL>>],
      [front |-> "tags", text |-> <<"a", " ">>],
      [front |-> Null,   text |-> <<"a", NL, "a">>] }

\* The character limit loadMarkdownFileToDb chunks with.  The code passes
\* 12_000; the model scales it down so that small files have several chunks.
IndexCharLimit == 2

\* Bounds: the identity sequence of the notes table, and how many times in
\* all a modification time changes.
MaxRowId == 3
MaxMtime == 1

\* calculateSHA256(content): a hash, taken to be free of collisions
calculateSHA256(content) == <<"sha256", content.front, content.text>>

\* testFrontmatter(fileContent)
testFrontmatter(fileContent) == fileContent.front # Null

\* extractAttrsAndBody(fileContent)
extractAttrsAndBody(fileContent) ==
    IF ~testFrontmatter(fileContent)
    THEN [attrs |-> Null, body |-> Trim(fileContent.text)]
    ELSE [attrs |-> fileContent.front, body |-> Trim(fileContent.text)]

\* The task instruction prefixes of the embedding model.
SearchDocument ==
    <<"s", "e", "a", "r", "c", "h", "_", "d", "o", "c", "u", "m", "e", "n", "t">>
SearchQuery == <<"s", "e", "a", "r", "c", "h", "_", "q", "u", "e", "r", "y">>
NoPrefix == <<>>

\* What generateEmbedding(input, taskInstructionPrefix) returns: the model's
\* vector for `${prefix}${input}`, a function of that text alone.
EmbeddingOf(input, taskInstructionPrefix) ==
    LET prefix == IF taskInstructionPrefix = NoPrefix THEN <<>>
                  ELSE taskInstructionPrefix \o <<":", " ">>
    IN  <<"vector", prefix \o input>>

\* Mutant: the body is chunked by chunkText, which returns no chunk at all
\* for a blank text.
BodyChunks_chunkText(body) == FallbackChunks(body, IndexCharLimit)

\* const bodyChunks = chunkMarkdown(body, 12_000)
BodyChunks(body) == chunkMarkdown(body, IndexCharLimit)

\* db.select({checksum}).from(notesTable).where(eq(filename, filePath)).limit(1):
\* no row, or any one row of the file
SelectChecksumLimit1(table, filePath) ==
    IF \E r \in table : r.filename = filePath
    THEN {<<[checksum |-> r.checksum]>> : r \in {x \in table : x.filename = filePath}}
    ELSE {<<>>}

\* existingNotes.length > 0 && existingNotes[0]?.checksum === checksum
ChecksumMatches(existingNotes, checksum) ==
    Len(existingNotes) > 0 /\ existingNotes[1].checksum = checksum

\* Mutant: the delete removes only the file's first chunk.
DeleteWhereFilename_firstChunk(table, filePath) ==
    {r \in table : ~(r.filename = filePath /\ r.chunk_index = 0)}

\* db.delete(notesTable).where(eq(notesTable.filename, filePath))
DeleteWhereFilename(table, filePath) == {r \in table : r.filename # filePath}

\* Mutant: the increment of chunkIndex is forgotten.
NextChunkIndex_stuck(chunkIndex) == chunkIndex

\* chunkIndex++
NextChunkIndex(chunkIndex) == chunkIndex + 1

\* The sum of g over the set S.
RECURSIVE SumOver(_, _)
SumOver(g, S) ==
    IF S = {} THEN 0
    ELSE LET x == CHOOSE y \in S : TRUE IN g[x] + SumOver(g, S \ {x})

\* The locals of a call that has not started.
LoadIdle ==
    [pc |-> "idle", filePath |-> <<>>, fileContent |-> [front |-> Null, text |-> <<>>],
     checksum |-> <<>>, existingNotes |-> <<>>, attrs |-> Null,
     bodyChunks |-> <<>>, pos |-> 0, chunkIndex |-> 0,
     contentEmbedding |-> <<>>, filePathEmbedding |-> <<>>, result |-> Null]

CallLogIdle == [embeds |-> 0, writes |-> 0, cleanAtRead |-> FALSE, dirty |-> FALSE,
                afterCrash |-> FALSE]

IndexInit ==
    /\ files \in [Filenames -> FileContents]
    /\ mtimes = [f \in Filenames |-> 0]
    /\ notes = {}
    /\ nextId = 1
    /\ load = LoadIdle
    /\ indexedClean = [f \in Filenames |-> FALSE]
    /\ crashedEmpty = [f \in Filenames |-> FALSE]
    /\ callLog = CallLogIdle

\* The lines from extractAttrsAndBody to the head of the for loop: they run
\* without an await after the select or the delete.
EnterLoop(l) ==
    LET ab == extractAttrsAndBody(l.fileContent)
        chunks == BodyChunks(ab.body)
    IN  [l EXCEPT !.attrs = ab.attrs, !.bodyChunks = chunks, !.pos = 1,
                  !.chunkIndex = 0,
                  !.pc = IF chunks = <<>> THEN "returned" ELSE "embedContent",
                  !.result = IF chunks = <<>> THEN "true" ELSE Null]

\* A caller calls loadMarkdownFileToDb(filePath); calls are sequential.
LoadStart(f) ==
    /\ load.pc = "idle"
    /\ load' = [LoadIdle EXCEPT !.pc = "readFile", !.filePath = f]
    /\ callLog' = CallLogIdle
    /\ UNCHANGED <<files, mtimes, notes, nextId, indexedClean, crashedEmpty>>
    /\ OnlyIndex

\* await fs.readFile(filePath); calculateSHA256(fileContent)
LoadReadFile ==
    /\ load.pc = "readFile"
    /\ load' = [load EXCEPT !.pc = "select",
                            !.fileContent = files[load.filePath],
                            !.checksum = calculateSHA256(files[load.filePath])]
    /\ callLog' = [callLog EXCEPT !.cleanAtRead = indexedClean[load.filePath],
                                  !.afterCrash = crashedEmpty[load.filePath],
                                  !.dirty = FALSE]
    /\ crashedEmpty' = [crashedEmpty EXCEPT ![load.filePath] = FALSE]
    /\ UNCHANGED <<files, mtimes, notes, nextId, indexedClean>>
    /\ OnlyIndex

\* await db.select(...).limit(1), the checksum gate, and what follows up to
\* the next await
LoadSelect ==
    /\ load.pc = "select"
    /\ \E existingNotes \in SelectChecksumLimit1(notes, load.filePath) :
          load' =
            IF ChecksumMatches(existingNotes, load.checksum)
            THEN [load EXCEPT !.existingNotes = existingNotes,
                              !.pc = "returned", !.result = "false"]
            ELSE IF Len(existingNotes) > 0
            THEN [load EXCEPT !.existingNotes = existingNotes, !.pc = "delete"]
            ELSE EnterLoop([load EXCEPT !.existingNotes = existingNotes])
    /\ UNCHANGED <<files, mtimes, notes, nextId, indexedClean, crashedEmpty, callLog>>
    /\ OnlyIndex

\* await db.delete(notesTable).where(...), then on to the loop
LoadDelete ==
    /\ load.pc = "delete"
    /\ notes' = DeleteWhereFilename(notes, load.filePath)
    /\ load' = EnterLoop(load)
    /\ callLog' = [callLog EXCEPT !.writes = @ + 1]
    /\ UNCHANGED <<files, mtimes, nextId, indexedClean, crashedEmpty>>
    /\ OnlyIndex

\* const contentEmbedding = await generateEmbedding(chunk.content)
LoadEmbedContent ==
    /\ load.pc = "embedContent"
    /\ load' = [load EXCEPT
                  !.contentEmbedding =
                      EmbeddingOf(load.bodyChunks[load.pos].content, NoPrefix),
                  !.pc = "embedFilename"]
    /\ callLog' = [callLog EXCEPT !.embeds = @ + 1]
    /\ UNCHANGED <<files, mtimes, notes, nextId, indexedClean, crashedEmpty>>
    /\ OnlyIndex

\* const filePathEmbedding = await generateEmbedding(filePath, "search_document")
LoadEmbedFilename ==
    /\ load.pc = "embedFilename"
    /\ load' = [load EXCEPT
                  !.filePathEmbedding = EmbeddingOf(load.filePath, SearchDocument),
                  !.pc = "insert"]
    /\ callLog' = [callLog EXCEPT !.embeds = @ + 1]
    /\ UNCHANGED <<files, mtimes, notes, nextId, indexedClean, crashedEmpty>>
    /\ OnlyIndex

\* await db.insert(notesTable).values({...}); chunkIndex++; the next chunk
\* or `return true`
LoadInsert ==
    /\ load.pc = "insert"
    \* the cap on the identity sequence; a glob run ends by itself
    /\ nextId <= MaxRowId \/ glob.pc = "loading"
    /\ notes' = notes \cup
          {[id |-> nextId,
            filename |-> load.filePath,
            chunk_index |-> load.chunkIndex,
            text |-> load.bodyChunks[load.pos].content,
            text_vector |-> load.contentEmbedding,
            filename_vector |-> load.filePathEmbedding,
            checksum |-> load.checksum,
            frontmatter_attributes |-> load.attrs]}
    /\ nextId' = nextId + 1
    /\ load' = [load EXCEPT
                  !.chunkIndex = NextChunkIndex(load.chunkIndex),
                  !.pos = load.pos + 1,
                  !.pc = IF load.pos + 1 > Len(load.bodyChunks)
                         THEN "returned" ELSE "embedContent",
                  !.result = IF load.pos + 1 > Len(load.bodyChunks)
                             THEN "true" ELSE Null]
    /\ callLog' = [callLog EXCEPT !.writes = @ + 1]
    /\ UNCHANGED <<files, mtimes, indexedClean, crashedEmpty>>
    /\ OnlyIndex

\* The call l has done its delete and none of its inserts.
StoppedAfterDelete(l) ==
    /\ l.pc \in {"embedContent", "embedFilename", "insert"}
    /\ Len(l.existingNotes) > 0
    /\ l.pos = 1

\* Any awaited operation may fail (or the process may stop there): the
\* error leaves loadMarkdownFileToDb, which catches nothing.
LoadThrow ==
    /\ load.pc \in {"readFile", "select", "delete", "embedContent",
                    "embedFilename", "insert"}
    /\ load' = [load EXCEPT !.pc = "threw"]
    /\ crashedEmpty' = [crashedEmpty EXCEPT ![load.filePath] =
                          IF StoppedAfterDelete(load) THEN TRUE ELSE @]
    /\ UNCHANGED <<files, mtimes, notes, nextId, indexedClean, callLog>>
    /\ OnlyIndex

\* The call's promise settles and the caller goes on.
LoadSettle ==
    /\ load.pc \in {"returned", "threw"}
    /\ indexedClean' = [indexedClean EXCEPT
                          ![load.filePath] = load.pc = "returned" /\ ~callLog.dirty]
    /\ load' = LoadIdle
    /\ callLog' = CallLogIdle
    /\ UNCHANGED <<files, mtimes, notes, nextId, crashedEmpty>>
    /\ OnlyIndex

\* The user saves a file with other content, at any time.
EditFile(f, c) ==
    /\ c # files[f]
    /\ files' = [files EXCEPT ![f] = c]
    /\ indexedClean' = [indexedClean EXCEPT ![f] = FALSE]
    /\ crashedEmpty' = [crashedEmpty EXCEPT ![f] = FALSE]
    /\ callLog' = IF load.filePath = f /\ load.pc \notin {"idle", "readFile"}
                  THEN [callLog EXCEPT !.dirty = TRUE] ELSE callLog
    /\ UNCHANGED <<mtimes, notes, nextId, load>>
    /\ OnlyIndex

\* The file's modification time changes and its content does not.
TouchFile(f) ==
    /\ SumOver(mtimes, Filenames) < MaxMtime
    /\ mtimes' = [mtimes EXCEPT ![f] = @ + 1]
    /\ UNCHANGED <<files, notes, nextId, load, indexedClean, crashedEmpty, callLog>>
    /\ OnlyIndex

NextIndex ==
    \/ \E f \in Filenames : LoadStart(f)
    \/ LoadReadFile
    \/ LoadSelect
    \/ LoadDelete
    \/ LoadEmbedContent
    \/ LoadEmbedFilename
    \/ LoadInsert
    \/ LoadThrow
    \/ LoadSettle
    \/ \E f \in Filenames, c \in FileContents : EditFile(f, c)
    \/ \E f \in Filenames : TouchFile(f)

\* The rows of a file.
RowsOf(f) == {r \in notes : r.filename = f}

---------------------------------------------------------------------------
(* src/src/env.ts: loadMarkdownFilesFromGlob *)

\* The entries under the working directory: three notes, a directory whose
\* name ends in .md, a text file and an Excalidraw drawing.
NoteC == <<"c", ".", "m", "d">>
GlobFiles == Filenames \cup {NoteC}
DirectoryD == <<"d", ".", "m", "d">>
TextFile == <<"n", ".", "t", "x", "t">>
ExcalidrawSuffix ==
    <<".", "e", "x", "c", "a", "l", "i", "d", "r", "a", "w", ".", "m", "d">>
ExcalidrawFile == <<"x">> \o ExcalidrawSuffix
Directories == {DirectoryD}
RegularFiles == GlobFiles \cup {TextFile, ExcalidrawFile}
Entries == RegularFiles \cup Directories

\* What the text file and the drawing hold.
OtherContent == [front |-> Null, text |-> <<"a", " ">>]

\* The position of the last ch in s, 0 when there is none.
LastIndexOf(s, ch) ==
    IF \E i \in 1..Len(s) : s[i] = ch
    THEN SetMax({i \in 1..Len(s) : s[i] = ch}) ELSE 0

\* s.endsWith(suffix)
EndsWith(s, suffix) ==
    /\ Len(s) >= Len(suffix)
    /\ SubSeq(s, Len(s) - Len(suffix) + 1, Len(s)) = suffix

\* path.basename(file)
basename(file) == SubSeq(file, LastIndexOf(file, "/") + 1, Len(file))

\* path.extname(file): from the last "." of the basename on; empty when the
\* basename has no "." or only a leading one
extname(file) ==
    LET base == basename(file)
        dot == LastIndexOf(base, ".")
    IN  IF dot <= 1 THEN <<>> ELSE SubSeq(base, dot, Len(base))

\* fileStat.isDirectory()
isDirectory(file) == file \in Directories

\* Mutant: drawings are not excluded.
IsExcalidraw_never(file) == FALSE

\* path.basename(file).endsWith(".excalidraw.md")
IsExcalidraw(file) == EndsWith(basename(file), ExcalidrawSuffix)

\* The three `continue` tests of the loop body, in their order.
SkippedByFilter(file) ==
    \/ isDirectory(file)
    \/ extname(file) # <<".", "m", "d">>
    \/ IsExcalidraw(file)

\* The glob patterns a run is given, and the entries fs.glob yields for them.
GlobPatterns == {<<"*">>, <<"*", ".", "m", "d">>}
GlobMatches(globPath) ==
    IF globPath = <<"*">> THEN Entries
    ELSE {e \in Entries : EndsWith(e, <<".", "m", "d">>)}

\* The records a completed loadMarkdownFileToDb(filePath) leaves for a file
\* of the given content, with identities from firstId on.
IndexedRows(filePath, fileContent, firstId) ==
    LET ab == extractAttrsAndBody(fileContent)
        chunks == BodyChunks(ab.body)
    IN  {[id |-> firstId + i - 1,
          filename |-> filePath,
          chunk_index |-> i - 1,
          text |-> chunks[i].content,
          text_vector |-> EmbeddingOf(chunks[i].content, NoPrefix),
          filename_vector |-> EmbeddingOf(filePath, SearchDocument),
          checksum |-> calculateSHA256(fileContent),
          frontmatter_attributes |-> ab.attrs] : i \in 1..Len(chunks)}

\* The notes in the order earlier runs indexed them.
GlobFileOrder == <<<<"a", ".", "m", "d">>, <<"b", ".", "m", "d">>, NoteC>>

\* The table after earlier runs that indexed the content stored[f][1] for
\* each note f (stored[f] is empty: the note was never indexed).
RECURSIVE StoreAfter(_, _, _)
StoreAfter(stored, k, firstId) ==
    IF k > Len(GlobFileOrder) THEN [rows |-> {}, nextId |-> firstId]
    ELSE LET f == GlobFileOrder[k]
             rows == IF stored[f] = <<>> THEN {}
                     ELSE IndexedRows(f, stored[f][1], firstId)
             rest == StoreAfter(stored, k + 1, firstId + Cardinality(rows))
         IN  [rows |-> rows \cup rest.rows, nextId |-> rest.nextId]

\* The locals of a run that has not started, and its history: the table when
\* the run started and the paths it has given to loadMarkdownFileToDb.
GlobCallIdle ==
    [pc |-> "idle", globPath |-> <<>>, remaining |-> {}, count |-> 0,
     skipped |-> 0]
GlobLogIdle == [startNotes |-> {}, loaded |-> {}]

\* What the notes hold: a.md two chunks, b.md front matter and one chunk,
\* c.md white space only.
NoteContents ==
    [f \in GlobFiles |->
        IF f = NoteC THEN [front |-> Null, text |-> <<" ", NL>>]
        ELSE IF f = <<"b", ".", "m", "d">> THEN [front |-> "tags", text |-> <<"a", " ">>]
        ELSE [front |-> Null, text |-> <<"a", NL, "a">>]]

\* The notes directory, and a table left by earlier runs: every note is
\* new, indexed with its present content, or indexed with other content.
GlobInit ==
    /\ files = [f \in RegularFiles |->
                  IF f \in GlobFiles THEN NoteContents[f] ELSE OtherContent]
    /\ mtimes = [f \in RegularFiles |-> 0]
    /\ \E stored \in [GlobFiles -> {<<>>} \cup {<<c>> : c \in FileContents}] :
          /\ notes = StoreAfter(stored, 1, 1).rows
          /\ nextId = StoreAfter(stored, 1, 1).nextId
          /\ indexedClean = [f \in RegularFiles |->
                                f \in GlobFiles /\ stored[f] = <<files[f]>>]
    /\ crashedEmpty = [f \in RegularFiles |-> FALSE]
    /\ load = LoadIdle
    /\ callLog = CallLogIdle
    /\ glob = GlobCallIdle
    /\ globLog = GlobLogIdle

\* loadMarkdownFilesFromGlob(globPath) is called: count = 0, skipped = 0
GlobStart(globPath) ==
    /\ glob.pc = "idle"
    /\ load.pc = "idle"
    /\ glob' = [GlobCallIdle EXCEPT !.pc = "iterate", !.globPath = globPath,
                                    !.remaining = GlobMatches(globPath)]
    /\ globLog' = [startNotes |-> notes, loaded |-> {}]
    /\ UNCHANGED indexVars
    /\ OnlyGlob

\* Mutant: the call is made without await and the loop goes on at once.
AwaitLoad_notAwaited(g) == g

\* const wasProcessed = await loadMarkdownFileToDb(file): the loop stands
\* still until the call's promise settles.
AwaitLoad(g) == [g EXCEPT !.pc = "loading"]

\* fs.glob yields a path, in no specified order; await fs.stat(file); the
\* three tests; then either `continue` or the call of loadMarkdownFileToDb
GlobNextFile(file) ==
    /\ glob.pc = "iterate"
    /\ file \in glob.remaining
    /\ IF SkippedByFilter(file)
       THEN /\ glob' = [glob EXCEPT !.remaining = @ \ {file}]
            /\ UNCHANGED <<load, callLog, globLog>>
       ELSE /\ glob' = AwaitLoad([glob EXCEPT !.remaining = @ \ {file}])
            /\ load' = [LoadIdle EXCEPT !.pc = "readFile", !.filePath = file]
            /\ callLog' = CallLogIdle
            /\ globLog' = [globLog EXCEPT !.loaded = @ \cup {file}]
    /\ UNCHANGED <<files, mtimes, notes, nextId, indexedClean, crashedEmpty>>
    /\ OnlyGlob

\* The awaited call returns wasProcessed: count++ (and the delay) or
\* skipped++, and on to the next path
GlobFileLoaded ==
    /\ glob.pc = "loading"
    /\ load.pc = "returned"
    /\ glob' = IF load.result = "true"
               THEN [glob EXCEPT !.count = @ + 1, !.pc = "iterate"]
               ELSE [glob EXCEPT !.skipped = @ + 1, !.pc = "iterate"]
    /\ indexedClean' = [indexedClean EXCEPT ![load.filePath] = ~callLog.dirty]
    /\ load' = LoadIdle
    /\ callLog' = CallLogIdle
    /\ UNCHANGED <<files, mtimes, notes, nextId, crashedEmpty, globLog>>
    /\ OnlyGlob

\* The awaited call throws: nothing catches it, the run rejects.
GlobFileFailed ==
    /\ glob.pc = "loading"
    /\ load.pc = "threw"
    /\ glob' = [glob EXCEPT !.pc = "rejected"]
    /\ indexedClean' = [indexedClean EXCEPT ![load.filePath] = FALSE]
    /\ load' = LoadIdle
    /\ callLog' = CallLogIdle
    /\ UNCHANGED <<files, mtimes, notes, nextId, crashedEmpty, globLog>>
    /\ OnlyGlob

\* The iterator is exhausted: print.success(..., count, skipped)
GlobFinish ==
    /\ glob.pc = "iterate"
    /\ glob.remaining = {}
    /\ glob' = [glob EXCEPT !.pc = "done"]
    /\ UNCHANGED <<indexVars, globLog>>
    /\ OnlyGlob

NextGlob ==
    \/ \E globPath \in GlobPatterns : GlobStart(globPath)
    \/ \E file \in Entries : GlobNextFile(file)
    \/ LoadReadFile
    \/ LoadSelect
    \/ LoadDelete
    \/ LoadEmbedContent
    \/ LoadEmbedFilename
    \/ LoadInsert
    \/ LoadThrow
    \/ GlobFileLoaded
    \/ GlobFileFailed
    \/ GlobFinish

---------------------------------------------------------------------------
(* src/src/llms/embeddings.ts: getExtractor and generateEmbedding *)

\* Bounds: the callers that may have a generateEmbedding call in progress at
\* the same time, and the calls each makes.
NumCallers == 2
MaxCallsEach == 2

Callers == 1..NumCallers

\* No pipeline: the initial value of extractorNomicV1.
NoExtractor == 0

EmbedCallIdle == [pc |-> "idle", extractor |-> NoExtractor, calls |-> 0]

EmbedInit ==
    /\ extractorNomicV1 = NoExtractor
    /\ embedCalls = [c \in Callers |-> EmbedCallIdle]
    /\ pipelines = 0

\* generateEmbedding(input, prefix) is called and runs getExtractor up to its
\* first await: `if (extractorNomicV1) return extractorNomicV1`, else on to
\* `await import("@huggingface/transformers")`.
EmbedCall(c) ==
    /\ embedCalls[c].pc = "idle"
    /\ embedCalls[c].calls < MaxCallsEach
    /\ embedCalls' = [embedCalls EXCEPT ![c] =
          IF extractorNomicV1 # NoExtractor
          THEN [pc |-> "extract", extractor |-> extractorNomicV1, calls |-> @.calls + 1]
          ELSE [pc |-> "import", extractor |-> NoExtractor, calls |-> @.calls + 1]]
    /\ UNCHANGED <<extractorNomicV1, pipelines>>
    /\ OnlyEmbed

\* The import has resolved; pipeline("feature-extraction", ...) is called.
EmbedImported(c) ==
    /\ embedCalls[c].pc = "import"
    /\ embedCalls' = [embedCalls EXCEPT ![c].pc = "pipeline"]
    /\ UNCHANGED <<extractorNomicV1, pipelines>>
    /\ OnlyEmbed

\* pipeline(...) resolves with a newly constructed pipeline, which is
\* assigned to extractorNomicV1 and returned.
EmbedConstructed(c) ==
    /\ embedCalls[c].pc = "pipeline"
    /\ pipelines' = pipelines + 1
    /\ extractorNomicV1' = pipelines + 1
    /\ embedCalls' = [embedCalls EXCEPT ![c].pc = "extract",
                                        ![c].extractor = pipelines + 1]
    /\ OnlyEmbed

\* The import or the construction fails: the error leaves generateEmbedding.
EmbedInitFailed(c) ==
    /\ embedCalls[c].pc \in {"import", "pipeline"}
    /\ embedCalls' = [embedCalls EXCEPT ![c].pc = "threw"]
    /\ UNCHANGED <<extractorNomicV1, pipelines>>
    /\ OnlyEmbed

\* await extractor([`${prefix}${input}`], ...) and the return of the vector
EmbedExtracted(c) ==
    /\ embedCalls[c].pc = "extract"
    /\ embedCalls' = [embedCalls EXCEPT ![c].pc = "returned"]
    /\ UNCHANGED <<extractorNomicV1, pipelines>>
    /\ OnlyEmbed

\* The caller takes the result and may call again.
EmbedSettled(c) ==
    /\ embedCalls[c].pc \in {"returned", "threw"}
    /\ embedCalls' = [embedCalls EXCEPT ![c].pc = "idle",
                                        ![c].extractor = NoExtractor]
    /\ UNCHANGED <<extractorNomicV1, pipelines>>
    /\ OnlyEmbed

NextEmbed ==
    \/ \E c \in Callers : EmbedCall(c)
    \/ \E c \in Callers : EmbedImported(c)
    \/ \E c \in Callers : EmbedConstructed(c)
    \/ \E c \in Callers : EmbedInitFailed(c)
    \/ \E c \in Callers : EmbedExtracted(c)
    \/ \E c \in Callers : EmbedSettled(c)

---------------------------------------------------------------------------
(* src/src/env.ts: executeRipgrepSearch *)

\* Bounds: the lines the child writes to stdout, and the caller's maxResults.
MaxLines == 3
MaxMaxResults == 2

\* Bound: the flags of one call.
MaxFlags == 2

\* NOTES_DIRECTORY = resolve("example_notes")
NOTES_DIRECTORY == "<cwd>/example_notes"

\* The patterns and the flags a caller may pass: any strings, among them
\* ones that look like flags or like paths.
RgPatterns == {"TODO", "--files"}
RgFlags == {"-i", "/etc"}

\* Mutant: the pattern and the flags change places.
RipgrepArgs_flagsLast(pattern, flags) ==
    <<pattern, "--line-number", "--with-filename", "--no-heading",
      "--color=never", NOTES_DIRECTORY>> \o flags

\* const args = [...flags, "--line-number", ..., pattern, NOTES_DIRECTORY]
RipgrepArgs(pattern, flags) ==
    flags \o <<"--line-number", "--with-filename", "--no-heading",
               "--color=never", pattern, NOTES_DIRECTORY>>

\* A line of ripgrep's output, path:line:content; the content of the second
\* ends in a space.
RgLines == {<<"a">>, <<"b", " ">>}

\* What the child may write to stdout: up to MaxLines lines, each ended by a
\* line break.
RECURSIVE JoinLines(_)
JoinLines(ls) ==
    IF ls = <<>> THEN <<>> ELSE Head(ls) \o <<NL>> \o JoinLines(Tail(ls))

RgStdoutTexts == {JoinLines(ls) : ls \in StringsUpTo(RgLines, MaxLines)}

\* What the child may write to stderr.
RgStderrTexts == {<<>>, <<"e", "r">>}

\* The exit code the close event carries: 0, 1, another code, or null when
\* a signal ended the child; and the negative errno of a failed spawn.
ExitCodes == {"0", "1", "2", "null"}
SpawnFailCodes == {"-2"}

\* s.split("\n"): the pieces between the line breaks
RECURSIVE SplitLines(_, _)
SplitLines(s, piece) ==
    IF s = <<>> THEN <<piece>>
    ELSE IF Head(s) = NL THEN <<piece>> \o SplitLines(Tail(s), <<>>)
    ELSE SplitLines(Tail(s), Append(piece, Head(s)))

\* .filter(line => line.trim())
NonBlank(ls) == SelectSeq(ls, LAMBDA l : ~IsBlank(l))

\* The line pushed when the results were limited.
MoreResultsLine(n, limit) ==
    <<"... and ", n, " more results (limited to ", limit, ")">>

NoMatchesFound == <<"No matches found">>

\* The spawn error Node passes to the 'error' listener.
SpawnError == [message |-> <<"spawn rg ENOENT">>]

Pending == [state |-> "pending", value |-> <<>>]
Fulfilled(v) == [state |-> "fulfilled", value |-> v]
Rejected(e) == [state |-> "rejected", value |-> e]

\* resolve(...) and reject(...) of `new Promise((resolve, reject) => ...)`:
\* only the first call settles the promise.
Settle(promise, outcome) ==
    IF promise.state = "pending" THEN outcome ELSE promise

\* The branch for exit code 0: the lines, cut to maxResults.
MatchesOutcome(out, limit) ==
    LET totalMatches == Len(NonBlank(SplitLines(out, <<>>)))
        results == NonBlank(SplitLines(Trim(out), <<>>))
        limited == Len(results) > limit
        sliced == Slice(results, 0, limit)
        limitedResults ==
            IF limited
            THEN Append(sliced, MoreResultsLine(Len(results) - limit, limit))
            ELSE sliced
    IN  Fulfilled([results |-> IF Len(limitedResults) > 0
                               THEN limitedResults
                               ELSE <<NoMatchesFound>>,
                   totalMatches |-> totalMatches,
                   limited |-> limited])

NoMatchOutcome ==
    Fulfilled([results |-> <<NoMatchesFound>>, totalMatches |-> 0,
               limited |-> FALSE])

\* Mutant: every exit code but 0 is taken for "no matches".
CloseOutcome_nonZeroIsNoMatch(code, out, errOut, limit) ==
    IF code = "0" THEN MatchesOutcome(out, limit) ELSE NoMatchOutcome

\* The 'close' listener: what it passes to resolve or reject.
CloseOutcome(code, out, errOut, limit) ==
    IF code = "0" THEN MatchesOutcome(out, limit)
    ELSE IF code = "1" THEN NoMatchOutcome
    ELSE Rejected([message |-> <<"ripgrep failed: ">> \o errOut])

\* Mutant: a failed spawn is reported as a search without matches.
ErrorOutcome_noMatch(error) == NoMatchOutcome

\* The 'error' listener: reject(error)
ErrorOutcome(error) == Rejected(error)

NoChild ==
    [failed |-> FALSE, stdout |-> <<>>, stderr |-> <<>>, code |-> "0",
     closePending |-> FALSE, errorPending |-> FALSE]

RgInit ==
    /\ rgPc = "idle"
    /\ maxResults = 0
    /\ child = NoChild
    /\ output = <<>>
    /\ errorOutput = <<>>
    /\ rgPromise = Pending
    /\ rgFirst = Pending
    /\ rgOptions = [pattern |-> "", flags |-> <<>>]
    /\ rgArgs = <<>>

\* executeRipgrepSearch({pattern, flags, maxResults}) spawns the child, which
\* starts and will write some text and exit with some code.
RgSpawn(pattern, flags, limit, out, err, code) ==
    /\ rgPc = "idle"
    /\ rgPc' = "spawned"
    /\ maxResults' = limit
    /\ child' = [failed |-> FALSE, stdout |-> out, stderr |-> err, code |-> code,
                 closePending |-> TRUE, errorPending |-> FALSE]
    /\ output' = <<>>
    /\ errorOutput' = <<>>
    /\ rgPromise' = Pending
    /\ rgFirst' = Pending
    /\ rgOptions' = [pattern |-> pattern, flags |-> flags]
    /\ rgArgs' = RipgrepArgs(pattern, flags)
    /\ OnlyRg

\* The same, and the child cannot be started: it writes nothing, and Node
\* emits 'error' and a 'close' that carries the negative errno.
RgSpawnFails(pattern, flags, limit, code) ==
    /\ rgPc = "idle"
    /\ rgPc' = "spawned"
    /\ maxResults' = limit
    /\ child' = [failed |-> TRUE, stdout |-> <<>>, stderr |-> <<>>, code |-> code,
                 closePending |-> TRUE, errorPending |-> TRUE]
    /\ output' = <<>>
    /\ errorOutput' = <<>>
    /\ rgPromise' = Pending
    /\ rgFirst' = Pending
    /\ rgOptions' = [pattern |-> pattern, flags |-> flags]
    /\ rgArgs' = RipgrepArgs(pattern, flags)
    /\ OnlyRg

\* rg.stdout.on("data"): the next n characters arrive.
RgStdoutData(n) ==
    /\ rgPc = "spawned"
    /\ n \in 1..Len(child.stdout)
    /\ output' = output \o SubSeq(child.stdout, 1, n)
    /\ child' = [child EXCEPT !.stdout = SubSeq(@, n + 1, Len(@))]
    /\ UNCHANGED <<rgPc, maxResults, errorOutput, rgPromise, rgFirst, rgOptions, rgArgs>>
    /\ OnlyRg

\* rg.stderr.on("data")
RgStderrData(n) ==
    /\ rgPc = "spawned"
    /\ n \in 1..Len(child.stderr)
    /\ errorOutput' = errorOutput \o SubSeq(child.stderr, 1, n)
    /\ child' = [child EXCEPT !.stderr = SubSeq(@, n + 1, Len(@))]
    /\ UNCHANGED <<rgPc, maxResults, output, rgPromise, rgFirst, rgOptions, rgArgs>>
    /\ OnlyRg

\* rg.on("close"): emitted once the child has ended and its streams are closed.
RgClose ==
    /\ rgPc = "spawned"
    /\ child.closePending
    /\ child.stdout = <<>> /\ child.stderr = <<>>
    /\ child' = [child EXCEPT !.closePending = FALSE]
    /\ LET settled == Settle(rgPromise,
                        CloseOutcome(child.code, output, errorOutput, maxResults))
       IN  /\ rgPromise' = settled
           /\ rgFirst' = IF rgPromise.state = "pending" THEN settled ELSE rgFirst
    /\ UNCHANGED <<rgPc, maxResults, output, errorOutput, rgOptions, rgArgs>>
    /\ OnlyRg

\* rg.on("error")
RgError ==
    /\ rgPc = "spawned"
    /\ child.errorPending
    /\ child' = [child EXCEPT !.errorPending = FALSE]
    /\ LET settled == Settle(rgPromise, ErrorOutcome(SpawnError))
       IN  /\ rgPromise' = settled
           /\ rgFirst' = IF rgPromise.state = "pending" THEN settled ELSE rgFirst
    /\ UNCHANGED <<rgPc, maxResults, output, errorOutput, rgOptions, rgArgs>>
    /\ OnlyRg

\* All events are delivered and the caller has the outcome; it may search again.
RgDone ==
    /\ rgPc = "spawned"
    /\ ~child.closePending /\ ~child.errorPending
    /\ rgPc' = "idle"
    /\ maxResults' = 0
    /\ child' = NoChild
    /\ output' = <<>>
    /\ errorOutput' = <<>>
    /\ rgPromise' = Pending
    /\ rgFirst' = Pending
    /\ rgOptions' = [pattern |-> "", flags |-> <<>>]
    /\ rgArgs' = <<>>
    /\ OnlyRg

NextRg ==
    \/ /\ rgPc = "idle"
       /\ \E pattern \in RgPatterns, flags \in StringsUpTo(RgFlags, MaxFlags),
             limit \in 0..MaxMaxResults, out \in RgStdoutTexts,
             err \in RgStderrTexts, code \in ExitCodes :
               RgSpawn(pattern, flags, limit, out, err, code)
    \/ /\ rgPc = "idle"
       /\ \E pattern \in RgPatterns, flags \in StringsUpTo(RgFlags, MaxFlags),
             limit \in 0..MaxMaxResults, code \in SpawnFailCodes :
               RgSpawnFails(pattern, flags, limit, code)
    \/ \E n \in 1..(MaxLines * 3) : RgStdoutData(n)
    \/ \E n \in 1..2 : RgStderrData(n)
    \/ RgClose
    \/ RgError
    \/ RgDone

---------------------------------------------------------------------------
(* src/src/context/request-context.ts (appended to request-context.test.ts),
   src/src/context/conversation-context.ts *)

\* Bounds: the units started, and the awaits of all units together.
MaxUnits == 3
MaxAwaits == 2

\* The two AsyncLocalStorage instances.
Storages == {"request", "conversation"}

\* getStore() ?? null when no store was entered.
NoId == 0

\* Task 0 is the main script; unit u is the function given to the u-th
\* runWith... call, and u is the identifier it was started with.
Main == 0
Units == 1..MaxUnits

\* The stores outside every run: both absent.
RootStore == [k \in Storages |-> NoId]

\* Mutant: one shared slot; a continuation sees whatever value is in it.
StoreOnResume_sharedSlot(captured, current) == current

\* AsyncLocalStorage: a continuation runs with the stores its async function
\* had when it awaited.
StoreOnResume(captured, current) == captured

\* Mutant: the store is entered and never left (enterWith).
RunExit_noRestore(saved, current) == current

\* storage.run(id, fn): when fn has returned, thrown or handed back its
\* promise, the store is again what it was before the call.
RunExit(saved, current) == saved

\* The stores after the frame on top of the stack is left: a run leaves its
\* store, a continuation called by the event loop goes back to the root.
ExitFrame(frame, store) ==
    IF frame.kind = "resume"
    THEN RootStore
    ELSE [store EXCEPT ![frame.kind] = RunExit(frame.saved, store[frame.kind])]

getRequestId == ctxStore["request"]
getConversationId == ctxStore["conversation"]

NoTask == [pc |-> "unborn", parent |-> Main, kind |-> "none", awaits |-> 0,
           ctx |-> RootStore, before |-> RootStore]

NoGet == [task |-> -1, value |-> RootStore]

NoEntry == [task |-> -1, meta |-> NoId, requestId |-> NoId]

Top == ctxStack[Len(ctxStack)]
Pop == SubSeq(ctxStack, 1, Len(ctxStack) - 1)

\* The awaits the units have made so far.
UnitAwaits == SumOver([u \in Units |-> tasks[u].awaits], Units)

\* The main script is running, outside every run.
CtxInit ==
    /\ ctxStore = RootStore
    /\ ctxStack = <<[task |-> Main, kind |-> "resume", saved |-> NoId]>>
    /\ tasks = [t \in {Main} \cup Units |->
                  IF t = Main THEN [NoTask EXCEPT !.pc = "running"] ELSE NoTask]
    /\ got = NoGet
    /\ logged = NoEntry

\* The running function calls runWithRequestId(u, fn) or
\* runWithConversationId(u, fn): the store is entered and fn starts.
CtxRun(u, k) ==
    /\ ctxStack # <<>>
    /\ tasks[u].pc = "unborn"
    /\ \A v \in Units : v < u => tasks[v].pc # "unborn"
    /\ tasks' = [tasks EXCEPT ![u] = [pc |-> "running", parent |-> Top.task,
                                      kind |-> k, awaits |-> 0,
                                      ctx |-> RootStore, before |-> ctxStore]]
    /\ ctxStack' = Append(ctxStack, [task |-> u, kind |-> k, saved |-> ctxStore[k]])
    /\ ctxStore' = [ctxStore EXCEPT ![k] = u]
    /\ got' = NoGet
    /\ logged' = NoEntry
    /\ OnlyCtx

\* The running function calls getRequestId() and getConversationId().
CtxGet ==
    /\ ctxStack # <<>>
    /\ got' = [task |-> Top.task,
               value |-> [k \in Storages |->
                            IF k = "request" THEN getRequestId ELSE getConversationId]]
    /\ logged' = NoEntry
    /\ UNCHANGED <<ctxStore, ctxStack, tasks>>
    /\ OnlyCtx

\* The running function awaits: its continuation keeps the current stores,
\* and control goes back to its caller.
CtxAwait ==
    /\ ctxStack # <<>>
    /\ Top.task \in Units => UnitAwaits < MaxAwaits
    /\ tasks' = [tasks EXCEPT ![Top.task].pc = "awaiting",
                              ![Top.task].awaits = IF Top.task = Main THEN @ ELSE @ + 1,
                              ![Top.task].ctx = ctxStore]
    /\ ctxStore' = ExitFrame(Top, ctxStore)
    /\ ctxStack' = Pop
    /\ got' = NoGet
    /\ logged' = NoEntry
    /\ OnlyCtx

\* The event loop calls the continuation of an awaiting function.
CtxResume(t) ==
    /\ ctxStack = <<>>
    /\ tasks[t].pc = "awaiting"
    /\ tasks' = [tasks EXCEPT ![t].pc = "running"]
    /\ ctxStore' = StoreOnResume(tasks[t].ctx, ctxStore)
    /\ ctxStack' = <<[task |-> t, kind |-> "resume", saved |-> NoId]>>
    /\ got' = NoGet
    /\ logged' = NoEntry
    /\ OnlyCtx

\* The running unit returns.
CtxReturn ==
    /\ ctxStack # <<>>
    /\ Top.task # Main
    /\ tasks' = [tasks EXCEPT ![Top.task].pc = "returned"]
    /\ ctxStore' = ExitFrame(Top, ctxStore)
    /\ ctxStack' = Pop
    /\ got' = NoGet
    /\ logged' = NoEntry
    /\ OnlyCtx

\* The running unit throws.
CtxThrow ==
    /\ ctxStack # <<>>
    /\ Top.task # Main
    /\ tasks' = [tasks EXCEPT ![Top.task].pc = "threw"]
    /\ ctxStore' = ExitFrame(Top, ctxStore)
    /\ ctxStack' = Pop
    /\ got' = NoGet
    /\ logged' = NoEntry
    /\ OnlyCtx

\* src/src/logger/logger.ts: the requestId a logging call or a child logger
\* can give in its metadata: none, or one that is no scope's identifier.
ExplicitId == MaxUnits + 1
MetaRequestIds == {NoId, ExplicitId}

\* logger.child(childMeta).info(message, callMeta): the fields of the call
\* go over those of the child logger
MergedMeta(childMeta, callMeta) == IF callMeta # NoId THEN callMeta ELSE childMeta

\* Mutant: the format attaches nothing.
attachRequestIdFormat_keep(infoRequestId, current) == infoRequestId

\* attachRequestIdFormat: info.requestId ??= getRequestId()
attachRequestIdFormat(infoRequestId, current) ==
    IF infoRequestId # NoId THEN infoRequestId ELSE current

\* The running function logs, with the logger or a child logger: the entry
\* goes through the format in the call.
CtxLog(childMeta, callMeta) ==
    /\ ctxStack # <<>>
    /\ logged' = [task |-> Top.task,
                  meta |-> MergedMeta(childMeta, callMeta),
                  requestId |-> attachRequestIdFormat(
                                    MergedMeta(childMeta, callMeta), getRequestId)]
    /\ got' = NoGet
    /\ UNCHANGED <<ctxStore, ctxStack, tasks>>
    /\ OnlyCtx

NextCtx ==
    \/ \E u \in Units, k \in Storages : CtxRun(u, k)
    \/ CtxGet
    \/ CtxAwait
    \/ \E t \in {Main} \cup Units : CtxResume(t)
    \/ CtxReturn
    \/ CtxThrow

\* Functions that start request scopes and log instead of calling the
\* getters.
NextLog ==
    \/ \E u \in Units : CtxRun(u, "request")
    \/ \E childMeta \in MetaRequestIds, callMeta \in MetaRequestIds :
          CtxLog(childMeta, callMeta)
    \/ CtxAwait
    \/ \E t \in {Main} \cup Units : CtxResume(t)
    \/ CtxReturn
    \/ CtxThrow

---------------------------------------------------------------------------
(* queryDocuments (src/unnamed/part_013) *)

\* Bounds: the rows of the notes table, and the limit of a call.
MaxRecords == 3
MaxLimit == 2

\* The value of 1 - cosineDistance(vector, queryEmbedding) of a stored vector,
\* on a scale of three levels; thresholds are on the same scale.
Similarities == {0, 1, 2}
Thresholds == {0, 1}

\* The query texts: empty, white space only, and a word.
Queries == {<<>>, <<" ", NL>>, <<"q">>}

\* The file a row belongs to: rows 1 and 2 are the two chunks of one file,
\* every later row is the only chunk of a file of its own.
FilenameOfRow(id) == IF id <= 2 THEN 1 ELSE id - 1
ChunkIndexOfRow(id) == IF id = 2 THEN 1 ELSE 0

\* The contents the notes table may have: rows 1..n; the chunks of one file
\* carry the same filename_vector, hence the same filename similarity.
QueryStores ==
    UNION {
        {[id \in 1..n |-> [id |-> id,
                           filename |-> FilenameOfRow(id),
                           chunk_index |-> ChunkIndexOfRow(id),
                           filename_similarity |-> fs[FilenameOfRow(id)],
                           content_similarity |-> cs[id]]] :
            fs \in [1..MaxRecords -> Similarities],
            cs \in [1..n -> Similarities]} :
        n \in 0..MaxRecords}

\* Mutant: only the empty query is refused.
QueryIsBlank_noTrim(query) == query = <<>>

\* query.trim() === ""
QueryIsBlank(query) == Trim(query) = <<>>

\* Mutant: the comparison lets the threshold itself through.
AboveThreshold_orEqual(similarity, threshold) == similarity >= threshold

\* .where(gt(similarity, threshold))
AboveThreshold(similarity, threshold) == similarity > threshold

\* The row a channel query selects for a record.
SelectedRow(r, channel) ==
    [id |-> r.id, filename |-> r.filename, chunk_index |-> r.chunk_index,
     similarity |-> IF channel = "filename" THEN r.filename_similarity
                    ELSE r.content_similarity]

\* The injective sequences of length n over the set S.
Arrangements(S, n) ==
    {q \in [1..n -> S] : \A i, j \in 1..n : i # j => q[i] # q[j]}

\* db.select(...).from(notesTable).where(gt(similarity, threshold)).limit(limit):
\* the query has no ORDER BY, so the rows are any `limit` of the records above
\* the threshold, in any order.
ChannelResults(store, channel, threshold, limit) ==
    LET rows == {SelectedRow(store[i], channel) : i \in 1..Len(store)}
        qualifying == {r \in rows : AboveThreshold(r.similarity, threshold)}
        n == IF Cardinality(qualifying) < limit THEN Cardinality(qualifying)
             ELSE limit
    IN  Arrangements(qualifying, n)

\* Mutant: rows with an id already seen are kept.
distinctBy_keepAll(rows) == rows

\* distinctBy(allResults, (x) => x.id): the first row of every id
RECURSIVE distinctBy(_)
distinctBy(rows) ==
    IF rows = <<>> THEN <<>>
    ELSE LET before == SubSeq(rows, 1, Len(rows) - 1)
             last == rows[Len(rows)]
         IN  IF \E j \in 1..Len(before) : before[j].id = last.id
             THEN distinctBy(before)
             ELSE Append(distinctBy(before), last)

\* Where a row goes in a list sorted by descending similarity: after the rows
\* that are not less similar (the sort is stable).
RECURSIVE InsertBySimilarity(_, _)
InsertBySimilarity(sorted, row) ==
    IF sorted = <<>> THEN <<row>>
    ELSE IF Head(sorted).similarity >= row.similarity
    THEN <<Head(sorted)>> \o InsertBySimilarity(Tail(sorted), row)
    ELSE <<row>> \o sorted

\* Mutant: the merged rows are left in the order of the two queries.
SortBySimilarity_unsorted(rows) == rows

\* .sort((a, b) => b.similarity - a.similarity)
RECURSIVE SortBySimilarity(_)
SortBySimilarity(rows) ==
    IF rows = <<>> THEN <<>>
    ELSE InsertBySimilarity(SortBySimilarity(SubSeq(rows, 1, Len(rows) - 1)),
                            rows[Len(rows)])

\* Mutant: the merged list is returned whole.
TakeLimit_all(rows, limit) == rows

\* .slice(0, limit)
TakeLimit(rows, limit) == Slice(rows, 0, limit)

\* allResults and results of queryDocuments
MergeResults(fRows, cRows, limit) ==
    LET allResults == fRows \o cRows
    IN  TakeLimit(SortBySimilarity(distinctBy(allResults)), limit)

NoArgs == [query |-> <<>>, limit |-> 0, contentSimilarityThreshold |-> 0,
           filenameSimilarityThreshold |-> 0]
NoLog == [embeds |-> 0, selects |-> 0]

\* The store holds some rows; no call is running.
QueryInit ==
    /\ qStore \in QueryStores
    /\ qPc = "idle"
    /\ qArgs = NoArgs
    /\ filenameResults = <<>>
    /\ contentResults = <<>>
    /\ qResult = <<>>
    /\ qLog = NoLog

\* queryDocuments(query, limit, contentSimilarityThreshold,
\* filenameSimilarityThreshold): a blank query throws, any other starts
\* generateEmbedding(query, "search_query").
QueryCall(query, limit, cThreshold, fThreshold) ==
    /\ qPc = "idle"
    /\ qArgs' = [query |-> query, limit |-> limit,
                 contentSimilarityThreshold |-> cThreshold,
                 filenameSimilarityThreshold |-> fThreshold]
    /\ filenameResults' = <<>>
    /\ contentResults' = <<>>
    /\ IF QueryIsBlank(query)
       THEN /\ qPc' = "threw"
            /\ qResult' = "Query is required"
            /\ qLog' = NoLog
       ELSE /\ qPc' = "embedding"
            /\ qResult' = <<>>
            /\ qLog' = [NoLog EXCEPT !.embeds = 1]
    /\ UNCHANGED qStore
    /\ OnlyQuery

\* The embedding is there; the filename query is issued.
QueryEmbedded ==
    /\ qPc = "embedding"
    /\ qPc' = "filename"
    /\ qLog' = [qLog EXCEPT !.selects = @ + 1]
    /\ UNCHANGED <<qStore, qArgs, filenameResults, contentResults, qResult>>
    /\ OnlyQuery

\* The filename query answers; the content query is issued.
QueryFilenameResults ==
    /\ qPc = "filename"
    /\ \E rows \in ChannelResults(qStore, "filename",
                                  qArgs.filenameSimilarityThreshold, qArgs.limit) :
          filenameResults' = rows
    /\ qPc' = "content"
    /\ qLog' = [qLog EXCEPT !.selects = @ + 1]
    /\ UNCHANGED <<qStore, qArgs, contentResults, qResult>>
    /\ OnlyQuery

\* The content query answers; the merged list is returned.
QueryContentResults ==
    /\ qPc = "content"
    /\ \E rows \in ChannelResults(qStore, "content",
                                  qArgs.contentSimilarityThreshold, qArgs.limit) :
          /\ contentResults' = rows
          /\ qResult' = MergeResults(filenameResults, rows, qArgs.limit)
    /\ qPc' = "returned"
    /\ UNCHANGED <<qStore, qArgs, filenameResults, qLog>>
    /\ OnlyQuery

\* The embedding or a store query fails; the call rejects with that error.
QueryRejected ==
    /\ qPc \in {"embedding", "filename", "content"}
    /\ qPc' = "threw"
    /\ qResult' = "error"
    /\ UNCHANGED <<qStore, qArgs, filenameResults, contentResults, qLog>>
    /\ OnlyQuery

\* The caller has the outcome; another query may follow.
QueryDone ==
    /\ qPc \in {"returned", "threw"}
    /\ qPc' = "idle"
    /\ qArgs' = NoArgs
    /\ filenameResults' = <<>>
    /\ contentResults' = <<>>
    /\ qResult' = <<>>
    /\ qLog' = NoLog
    /\ UNCHANGED qStore
    /\ OnlyQuery

NextQuery ==
    \/ \E query \in Queries, limit \in 0..MaxLimit,
          cThreshold \in Thresholds, fThreshold \in Thresholds :
            QueryCall(query, limit, cThreshold, fThreshold)
    \/ QueryEmbedded
    \/ QueryFilenameResults
    \/ QueryContentResults
    \/ QueryRejected
    \/ QueryDone

---------------------------------------------------------------------------
(* One call of chunkMarkdown on a bounded input *)

ChunkInit ==
    /\ chText \in StringsUpTo(TextAlphabet, MaxTextLen)
    /\ chLimit \in 1..MaxCharLimit
    /\ chChunks = <<>>
    /\ chPc = "call"

ChunkCall ==
    /\ chPc = "call"
    /\ LET call == chunkMarkdownCall(chText, chLimit, 1)
       IN  /\ chChunks' = call.value
           /\ chPc' = IF call.threw THEN "threw" ELSE "done"
    /\ UNCHANGED <<chText, chLimit>>
    /\ OnlyChunk

---------------------------------------------------------------------------
(* src/src/llms/tools/read-file.ts: the readFile tool, with node:path's   *)
(* POSIX join, resolve and relative                                       *)

\* Bound: the segments of the filePath argument.
MaxSegments == 3

DotDot == <<".", ".">>
Slash == <<"/">>

\* path.split("/")
RECURSIVE SplitPath(_, _, _, _)
SplitPath(p, i, cur, acc) ==
    IF i > Len(p) THEN Append(acc, cur)
    ELSE IF p[i] = "/" THEN SplitPath(p, i + 1, <<>>, Append(acc, cur))
    ELSE SplitPath(p, i + 1, Append(cur, p[i]), acc)

PathSegments(p) == SplitPath(p, 1, <<>>, <<>>)

\* segments.join("/")
RECURSIVE JoinPath(_)
JoinPath(segs) ==
    IF segs = <<>> THEN <<>>
    ELSE IF Len(segs) = 1 THEN segs[1]
    ELSE segs[1] \o Slash \o JoinPath(Tail(segs))

\* node:path normalizeString: empty and "." segments are dropped, ".." takes
\* the last segment away, or stays when there is none and the path may rise
\* above its start.
RECURSIVE normalizeString(_, _, _)
normalizeString(segs, allowAboveRoot, res) ==
    IF segs = <<>> THEN res
    ELSE LET seg == Head(segs)
             next ==
               IF seg = <<>> \/ seg = <<".">> THEN res
               ELSE IF seg = DotDot
               THEN IF Len(res) > 0 /\ res[Len(res)] # DotDot
                    THEN SubSeq(res, 1, Len(res) - 1)
                    ELSE IF allowAboveRoot THEN Append(res, DotDot) ELSE res
               ELSE Append(res, seg)
         IN  normalizeString(Tail(segs), allowAboveRoot, next)

isAbsolute(p) == p # <<>> /\ p[1] = "/"

\* path.normalize(p): a trailing separator is kept
normalize(p) ==
    IF p = <<>> THEN <<".">>
    ELSE LET trailingSeparator == p[Len(p)] = "/"
             path == JoinPath(normalizeString(PathSegments(p), ~isAbsolute(p), <<>>))
         IN  IF path = <<>>
             THEN IF isAbsolute(p) THEN Slash
                  ELSE IF trailingSeparator THEN <<".", "/">> ELSE <<".">>
             ELSE (IF isAbsolute(p) THEN Slash ELSE <<>>) \o path
                      \o (IF trailingSeparator THEN Slash ELSE <<>>)

\* path.join(a, b): the non-empty arguments joined by "/" and normalized
join(a, b) ==
    IF a = <<>> /\ b = <<>> THEN <<".">>
    ELSE IF b = <<>> THEN normalize(a)
    ELSE IF a = <<>> THEN normalize(b)
    ELSE normalize(a \o Slash \o b)

\* process.cwd() and READ_NOTES_DIRECTORY = resolve(import.meta.dirname,
\* "../../../", "example_notes")
Cwd == <<"/", "r">>
READ_NOTES_DIRECTORY == <<"/", "r", "/", "n">>

\* path.resolve(p): absolute, normalized, without a trailing separator
resolve(p) ==
    LET absolute == IF isAbsolute(p) THEN p ELSE Cwd \o Slash \o p
    IN  Slash \o JoinPath(normalizeString(PathSegments(absolute), FALSE, <<>>))

RECURSIVE CommonPrefixLen(_, _)
CommonPrefixLen(a, b) ==
    IF a = <<>> \/ b = <<>> \/ Head(a) # Head(b) THEN 0
    ELSE 1 + CommonPrefixLen(Tail(a), Tail(b))

\* path.relative(from, to)
relative(from, to) ==
    LET f == resolve(from)
        t == resolve(to)
        fromSegs == normalizeString(PathSegments(f), FALSE, <<>>)
        toSegs == normalizeString(PathSegments(t), FALSE, <<>>)
        k == CommonPrefixLen(fromSegs, toSegs)
    IN  IF f = t THEN <<>>
        ELSE JoinPath([i \in 1..(Len(fromSegs) - k) |-> DotDot]
                         \o SubSeq(toSegs, k + 1, Len(toSegs)))

\* s.startsWith(prefix)
StartsWith(s, prefix) ==
    Len(s) >= Len(prefix) /\ SubSeq(s, 1, Len(prefix)) = prefix

\* Mutant: only the test for an absolute relative path is made.
PathIsOutside_absoluteOnly(relativePath) == resolve(relativePath) = relativePath

\* relativePath.startsWith("..") || resolve(relativePath) === relativePath
PathIsOutside(relativePath) ==
    StartsWith(relativePath, DotDot) \/ resolve(relativePath) = relativePath

\* Error messages: a sequence whose first element is the fixed text.
AccessDeniedMessage == <<"Access denied", ": Path is outside the notes directory">>
Includes(errorMessage, text) == \E i \in 1..Len(errorMessage) : errorMessage[i] = text

\* validateNotesPath(filePath): the resolved path, or the error thrown
validateNotesPath(filePath) ==
    LET resolvedPath == resolve(filePath)
        relativePath == relative(READ_NOTES_DIRECTORY, resolvedPath)
    IN  IF PathIsOutside(relativePath)
        THEN [threw |-> TRUE, value |-> AccessDeniedMessage]
        ELSE [threw |-> FALSE, value |-> resolvedPath]

\* The file system: its directories and its files with their content.
DirectoriesOnDisk == {<<>>, <<<<"r">>>>, <<<<"r">>, <<"n">>>>}
FilesOnDisk ==
    {<<<<"r">>, <<"n">>, <<"a">>>>, <<<<"r">>, <<"n">>, <<".", ".", "a">>>>,
     <<<<"r">>, <<"s">>>>}
ContentOnDisk(loc) == <<"c", "o", "n", "t", "e", "n", "t">> \o JoinPath(loc)

\* Where the operating system finds an absolute path: it walks the segments
\* from the root, ".." leading to the parent directory.
RECURSIVE Walk(_, _)
Walk(dir, segs) ==
    IF segs = <<>> THEN dir
    ELSE LET seg == Head(segs)
         IN  IF seg = <<>> \/ seg = <<".">> THEN Walk(dir, Tail(segs))
             ELSE IF seg = DotDot
             THEN Walk(IF dir = <<>> THEN dir ELSE SubSeq(dir, 1, Len(dir) - 1),
                       Tail(segs))
             ELSE Walk(Append(dir, seg), Tail(segs))

Locate(p) == Walk(<<>>, PathSegments(p))

\* await fs.readFile(fullPath, "utf-8"): the content, or the error thrown
readFile(fullPath) ==
    LET loc == Locate(fullPath)
    IN  IF loc \in FilesOnDisk
        THEN IF fullPath[Len(fullPath)] = "/"
             THEN [threw |-> TRUE, value |-> <<"ENOTDIR", ": not a directory, open '">> \o fullPath]
             ELSE [threw |-> FALSE, value |-> ContentOnDisk(loc)]
        ELSE IF loc \in DirectoriesOnDisk
        THEN [threw |-> TRUE, value |-> <<"EISDIR", ": illegal operation on a directory, read">>]
        ELSE [threw |-> TRUE, value |-> <<"ENOENT", ": no such file or directory, open '">> \o fullPath]

\* The read may also fail for a reason of its own.
ReadOutcomes(fullPath) ==
    {readFile(fullPath),
     [threw |-> TRUE, value |-> <<"EACCES", ": permission denied, open '">> \o fullPath]}

\* The catch block of execute: the error object the tool returns
CatchResult(filePath, errorMessage) ==
    IF Includes(errorMessage, "ENOENT")
    THEN [kind |-> "error", error |-> <<"File not found: ">> \o filePath]
    ELSE IF Includes(errorMessage, "Access denied")
    THEN [kind |-> "error", error |-> <<"Access denied: ">> \o filePath]
    ELSE [kind |-> "error", error |-> <<"Failed to read file: ">> \o errorMessage]

\* The filePath arguments the LLM may give.
SegmentSet == {<<>>, <<".">>, DotDot, <<"a">>, <<".", ".", "a">>, <<"n">>, <<"s">>}
FilePaths ==
    {JoinPath(segs) : segs \in UNION {[1..n -> SegmentSet] : n \in 0..MaxSegments}}

ReadCallIdle ==
    [pc |-> "idle", filePath |-> <<>>, fullPath |-> <<>>, reads |-> {},
     result |-> [kind |-> "none"]]

ReadInit == rf = ReadCallIdle

\* execute({filePath}) up to the await of fs.readFile, or, when
\* validateNotesPath throws, through the catch block
ReadExecute(filePath) ==
    /\ rf.pc = "idle"
    /\ LET fullPath == join(READ_NOTES_DIRECTORY, filePath)
           valid == validateNotesPath(fullPath)
       IN  rf' = IF valid.threw
                 THEN [ReadCallIdle EXCEPT
                          !.pc = "done", !.filePath = filePath,
                          !.fullPath = fullPath,
                          !.result = CatchResult(filePath, valid.value)]
                 ELSE [ReadCallIdle EXCEPT
                          !.pc = "reading", !.filePath = filePath,
                          !.fullPath = fullPath]
    /\ OnlyRead

\* fs.readFile settles: the tool returns the content or, through the catch
\* block, an error object
ReadSettle ==
    /\ rf.pc = "reading"
    /\ \E outcome \in ReadOutcomes(rf.fullPath) :
          rf' = [rf EXCEPT
                   !.pc = "done",
                   !.reads = @ \cup {rf.fullPath},
                   !.result =
                      IF outcome.threw
                      THEN CatchResult(rf.filePath, outcome.value)
                      ELSE [kind |-> "content", filePath |-> rf.filePath,
                            content |-> outcome.value,
                            size |-> Len(outcome.value)]]
    /\ OnlyRead

\* The caller takes the result; the tool may be called again.
ReadReturn ==
    /\ rf.pc = "done"
    /\ rf' = ReadCallIdle
    /\ OnlyRead

NextRead ==
    \/ \E filePath \in FilePaths : ReadExecute(filePath)
    \/ ReadSettle
    \/ ReadReturn

---------------------------------------------------------------------------
(* src/unnamed/part_003: the chat store and sendUserInputToLLM            *)

\* Bounds: the sendUserInputToLLM calls and the chunks of one text stream.
NumChatCalls == 2
MaxChunks == 2

ChatCalls == 1..NumChatCalls
\* The lines the user types, key by key.
InputChars == {"h", " "}
InputLines == {<<" ", "h">>}
ChunkTexts == {<<"o">>, <<" ">>}

\* error and debugInfo are a string or null: <<text>> or <<>>.
NoText == <<>>
InputIsEmpty == <<"Input is empty, skipping request.">>
ApiKeyNotFound ==
    <<"GOOGLE_GENERATIVE_AI_API_KEY not found. Please add it to your .env file.">>

\* export const store = proxy<Store>({...})
StoreInit ==
    [messages |-> <<>>, input |-> <<>>, isLoading |-> FALSE, error |-> NoText,
     debugInfo |-> NoText, streamingResponse |-> <<>>]

\* createRandomString(): the identifiers of a call's two messages, unique.
UserMessageId(c) == <<c, 1>>
AssistantMessageId(c) == <<c, 2>>

\* store.messages.push({role: "user", ...}) and the lines up to the call of
\* sendRequestToLLM
BeforeRequest(s, c, input) ==
    [s EXCEPT !.messages = Append(@, [role |-> "user", content |-> input,
                                      id |-> UserMessageId(c)]),
              !.error = NoText,
              !.input = <<>>,
              !.streamingResponse = <<>>,
              !.isLoading = TRUE,
              !.debugInfo = <<"Sending request to OpenAI...">>]

\* The finally block: the response so far becomes the assistant message and
\* the turn's state is cleared.
Finally(s, c) ==
    [s EXCEPT !.messages = Append(@, [role |-> "assistant",
                                      content |-> Trim(s.streamingResponse),
                                      id |-> AssistantMessageId(c)]),
              !.streamingResponse = <<>>,
              !.debugInfo = NoText,
              !.isLoading = FALSE]

\* Mutant: the assistant message is composed after the loop, inside the try
\* block, so that an error skips it.
CatchAndFinally_noMessage(s, c, errorMessage) ==
    [s EXCEPT !.error = <<errorMessage>>, !.streamingResponse = <<>>,
              !.debugInfo = NoText, !.isLoading = FALSE]

\* The catch block, then the finally block
CatchAndFinally(s, c, errorMessage) ==
    Finally([s EXCEPT !.error = <<errorMessage>>], c)

\* What a step has pushed to store.messages.
Pushed(old, new) ==
    IF Len(new) > Len(old)
    THEN [i \in 1..(Len(new) - Len(old)) |->
            [id |-> new[Len(old) + i].id, role |-> new[Len(old) + i].role]]
    ELSE <<>>

\* What a call leaves in the store when its promise settles.
AtSettle(s) ==
    [isLoading |-> s.isLoading, error |-> s.error, debugInfo |-> s.debugInfo,
     streamingResponse |-> s.streamingResponse]

ChatCallIdle ==
    [pc |-> "idle", blankAtCall |-> TRUE, chunkCount |-> 0, outcome |-> "none",
     atSettle |-> AtSettle(StoreInit)]

ChatInit ==
    /\ chatStore = StoreInit
    /\ chat = [c \in ChatCalls |-> ChatCallIdle]
    /\ chatLog = [pushes |-> <<>>, requests |-> {}]
    /\ apiKeySet \in BOOLEAN

\* The keys reach the store through Chat's useInput handler
\* (src/src/ui/chat/chat.tsx), which ignores them while store.isLoading.
KeysAccepted == ~chatStore.isLoading

\* appendInput(input): a key is pressed
ChatAppendInput(ch) ==
    /\ KeysAccepted
    /\ \E line \in InputLines :
          /\ Len(chatStore.input) < Len(line)
          /\ SubSeq(line, 1, Len(chatStore.input) + 1) = chatStore.input \o <<ch>>
    /\ chatStore' = [chatStore EXCEPT !.input = @ \o <<ch>>]
    /\ UNCHANGED <<chat, chatLog, apiKeySet>>
    /\ OnlyChat

\* deleteInputTail()
ChatDeleteInputTail ==
    /\ KeysAccepted
    /\ chatStore' = [chatStore EXCEPT
                       !.input = SubSeq(@, 1, IF Len(@) = 0 THEN 0 ELSE Len(@) - 1)]
    /\ UNCHANGED <<chat, chatLog, apiKeySet>>
    /\ OnlyChat

\* startNewConversation()
ChatStartNew ==
    /\ KeysAccepted
    /\ chatStore' = StoreInit
    /\ UNCHANGED <<chat, chatLog, apiKeySet>>
    /\ OnlyChat

\* Return is pressed: sendUserInputToLLM() up to its first await: the two checks, the user
\* message, the call of sendRequestToLLM (which may throw), and the head of
\* the for-await loop
ChatSend(c, requestThrows) ==
    /\ KeysAccepted
    /\ chat[c].pc = "idle"
    \* the calls are numbered in the order they are made
    /\ \A d \in 1..(c - 1) : chat[d].pc # "idle"
    /\ LET input == Trim(chatStore.input)
           rejected == input = <<>> \/ ~apiKeySet
           s == IF input = <<>>
                THEN [chatStore EXCEPT !.error = InputIsEmpty]
                ELSE IF ~apiKeySet
                THEN [chatStore EXCEPT !.error = ApiKeyNotFound]
                ELSE IF requestThrows
                THEN CatchAndFinally(BeforeRequest(chatStore, c, input), c,
                                     "request failed")
                ELSE [BeforeRequest(chatStore, c, input) EXCEPT
                        !.debugInfo = <<"Stream started, receiving tokens...">>]
       IN  /\ rejected => ~requestThrows
           /\ chatStore' = s
           /\ chat' = [chat EXCEPT ![c] =
                        [pc |-> IF rejected \/ requestThrows
                                THEN "settled" ELSE "streaming",
                         blankAtCall |-> IsBlank(chatStore.input),
                         chunkCount |-> 0,
                         outcome |-> IF rejected THEN "rejected"
                                     ELSE IF requestThrows THEN "failed"
                                     ELSE "none",
                         atSettle |-> AtSettle(s)]]
           /\ chatLog' = [pushes |-> chatLog.pushes
                                        \o Pushed(chatStore.messages, s.messages),
                          requests |-> IF rejected THEN chatLog.requests
                                       ELSE chatLog.requests \cup {c}]
    /\ UNCHANGED apiKeySet
    /\ OnlyChat

\* for await (const chunk of textStream): one chunk arrives
ChatChunk(c, chunk) ==
    /\ chat[c].pc = "streaming"
    /\ chat[c].chunkCount < MaxChunks
    /\ chatStore' =
          [chatStore EXCEPT
             !.streamingResponse = @ \o chunk,
             !.debugInfo = IF (chat[c].chunkCount + 1) % 10 = 0
                           THEN <<"Received chunk">> ELSE @]
    /\ chat' = [chat EXCEPT ![c].chunkCount = @ + 1]
    /\ UNCHANGED <<chatLog, apiKeySet>>
    /\ OnlyChat

\* onDebugInfo of createStreamingChatCompletion: a tool or onFinish reports
ChatOnDebugInfo(c) ==
    /\ chat[c].pc = "streaming"
    /\ chatStore' = [chatStore EXCEPT !.debugInfo = <<"info">>]
    /\ UNCHANGED <<chat, chatLog, apiKeySet>>
    /\ OnlyChat

\* onError of createStreamingChatCompletion
ChatOnError(c) ==
    /\ chat[c].pc = "streaming"
    /\ chatStore' = [chatStore EXCEPT !.error = <<"stream error">>]
    /\ UNCHANGED <<chat, chatLog, apiKeySet>>
    /\ OnlyChat

\* The stream ends: the rest of the try block and the finally block
ChatStreamEnd(c) ==
    /\ chat[c].pc = "streaming"
    /\ LET s == Finally(chatStore, c)
       IN  /\ chatStore' = s
           /\ chat' = [chat EXCEPT ![c].pc = "settled",
                                   ![c].outcome = "completed",
                                   ![c].atSettle = AtSettle(s)]
           /\ chatLog' = [chatLog EXCEPT
                            !.pushes = @ \o Pushed(chatStore.messages, s.messages)]
    /\ UNCHANGED apiKeySet
    /\ OnlyChat

\* The stream throws: the catch block and the finally block
ChatStreamThrow(c) ==
    /\ chat[c].pc = "streaming"
    /\ LET s == CatchAndFinally(chatStore, c, "stream failed")
       IN  /\ chatStore' = s
           /\ chat' = [chat EXCEPT ![c].pc = "settled",
                                   ![c].outcome = "failed",
                                   ![c].atSettle = AtSettle(s)]
           /\ chatLog' = [chatLog EXCEPT
                            !.pushes = @ \o Pushed(chatStore.messages, s.messages)]
    /\ UNCHANGED apiKeySet
    /\ OnlyChat

NextChat ==
    \/ \E ch \in InputChars : ChatAppendInput(ch)
    \/ ChatDeleteInputTail
    \/ ChatStartNew
    \/ \E c \in ChatCalls, requestThrows \in BOOLEAN : ChatSend(c, requestThrows)
    \/ \E c \in ChatCalls, chunk \in ChunkTexts : ChatChunk(c, chunk)
    \/ \E c \in ChatCalls : ChatOnDebugInfo(c)
    \/ \E c \in ChatCalls : ChatOnError(c)
    \/ \E c \in ChatCalls : ChatStreamEnd(c)
    \/ \E c \in ChatCalls : ChatStreamThrow(c)

---------------------------------------------------------------------------
\* The chunker and the indexer before their first call.
ChunkIdle == chText = <<>> /\ chLimit = 1 /\ chChunks = <<>> /\ chPc = "idle"
IndexIdle ==
    /\ files = [f \in Filenames |-> [front |-> Null, text |-> <<" ", NL>>]]
    /\ mtimes = [f \in Filenames |-> 0]
    /\ notes = {}
    /\ nextId = 1
    /\ load = LoadIdle
    /\ indexedClean = [f \in Filenames |-> FALSE]
    /\ crashedEmpty = [f \in Filenames |-> FALSE]
    /\ callLog = CallLogIdle

EmbedIdle == EmbedInit
RgIdle == RgInit
CtxIdle == CtxInit
GlobIdle == glob = GlobCallIdle /\ globLog = GlobLogIdle
ReadIdle == ReadInit
ChatIdle ==
    /\ chatStore = StoreInit
    /\ chat = [c \in ChatCalls |-> ChatCallIdle]
    /\ chatLog = [pushes |-> <<>>, requests |-> {}]
    /\ apiKeySet = FALSE
QueryIdle ==
    /\ qStore = <<>>
    /\ qPc = "idle"
    /\ qArgs = NoArgs
    /\ filenameResults = <<>>
    /\ contentResults = <<>>
    /\ qResult = <<>>
    /\ qLog = NoLog

InitChunk ==
    /\ ChunkInit /\ IndexIdle /\ EmbedIdle /\ RgIdle /\ CtxIdle /\ QueryIdle /\ GlobIdle
    /\ ReadIdle /\ ChatIdle
NextChunk == ChunkCall
SpecChunk == InitChunk /\ [][NextChunk]_vars

InitIndex ==
    /\ IndexInit /\ ChunkIdle /\ EmbedIdle /\ RgIdle /\ CtxIdle /\ QueryIdle /\ GlobIdle
    /\ ReadIdle /\ ChatIdle
SpecIndex == InitIndex /\ [][NextIndex]_vars

InitEmbed ==
    /\ EmbedInit /\ ChunkIdle /\ IndexIdle /\ RgIdle /\ CtxIdle /\ QueryIdle /\ GlobIdle
    /\ ReadIdle /\ ChatIdle
SpecEmbed == InitEmbed /\ [][NextEmbed]_vars

InitRg ==
    /\ RgInit /\ ChunkIdle /\ IndexIdle /\ EmbedIdle /\ CtxIdle /\ QueryIdle /\ GlobIdle
    /\ ReadIdle /\ ChatIdle
SpecRg == InitRg /\ [][NextRg]_vars

InitCtx ==
    /\ CtxInit /\ ChunkIdle /\ IndexIdle /\ EmbedIdle /\ RgIdle /\ QueryIdle /\ GlobIdle
    /\ ReadIdle /\ ChatIdle
SpecCtx == InitCtx /\ [][NextCtx]_vars
SpecLog == InitCtx /\ [][NextLog]_vars

InitQuery ==
    /\ QueryInit /\ ChunkIdle /\ IndexIdle /\ EmbedIdle /\ RgIdle /\ CtxIdle /\ GlobIdle
    /\ ReadIdle /\ ChatIdle
SpecQuery == InitQuery /\ [][NextQuery]_vars

InitGlob ==
    /\ GlobInit /\ ChunkIdle /\ EmbedIdle /\ RgIdle /\ CtxIdle /\ QueryIdle
    /\ ReadIdle /\ ChatIdle
SpecGlob == InitGlob /\ [][NextGlob]_vars

InitRead ==
    /\ ReadInit /\ ChunkIdle /\ IndexIdle /\ EmbedIdle /\ RgIdle /\ CtxIdle /\ QueryIdle
    /\ GlobIdle /\ ChatIdle
SpecRead == InitRead /\ [][NextRead]_vars

InitChat ==
    /\ ChatInit /\ ChunkIdle /\ IndexIdle /\ EmbedIdle /\ RgIdle /\ CtxIdle /\ QueryIdle
    /\ GlobIdle /\ ReadIdle
SpecChat == InitChat /\ [][NextChat]_vars

---------------------------------------------------------------------------
\* C4: every chunk chunkMarkdown returns is at most charLimit characters long.
C4_ChunkSizeInvariant ==
    chPc = "done" =>
        \A i \in 1..Len(chChunks) : Len(chChunks[i].content) <= chLimit

\* C20: chunker termination.  Every call of chunkMarkdown(text, charLimit)
\* with charLimit >= 1 returns: the recursion on oversized segments, with
\* the separator text put in front of them, and the recursion of the
\* fixed-size fallback end before the call stack is full, so the call never
\* throws a RangeError.
C20_ChunkerTerminates == chPc # "threw"

\* A call has returned after it chunked an oversized segment again, with
\* the text of the line separator in front of it, and that inner call ended
\* in the fixed-size fallback: the letter n of the separator text is a chunk.
C20_Witness ==
    /\ chPc = "done"
    /\ \E i \in 1..Len(chChunks) : chChunks[i].content = <<"n">>
    /\ \A i \in 1..Len(chText) : chText[i] # "."

\* C21: small input.  For a text no longer than charLimit, the empty and the
\* whitespace-only text included, chunkMarkdown returns one chunk, whose
\* content is the whole text and whose index is 0.
C21_SmallInput ==
    (chPc = "done" /\ Len(chText) <= chLimit) =>
        chChunks = <<[content |-> chText, index |-> 0]>>

\* A call on a whitespace-only text within the limit has returned.
C21_Witness ==
    /\ chPc = "done"
    /\ chText # <<>>
    /\ IsBlank(chText)
    /\ Len(chText) <= chLimit
    /\ Len(chChunks) = 1

\* C22: sequential chunk indices.  The index fields of the chunks that
\* chunkMarkdown returns are 0, 1, ..., n-1 in list order, whether the chunks
\* come from the segment loop, from an inner call on an oversized segment or
\* from the fixed-size fallback.
C22_SequentialIndices ==
    chPc = "done" => \A i \in 1..Len(chChunks) : chChunks[i].index = i - 1

\* A call has returned chunks of an inner call (the letter n of the
\* re-attached separator text is one of them) after at least two others.
C22_Witness ==
    /\ chPc = "done"
    /\ \E i \in 3..Len(chChunks) : chChunks[i].content = <<"n">>

\* No separator is usable for the text: the loop over the separators ends
\* without a return.
NoSeparatorUsable(text, charLimit) ==
    \A k \in 1..NumSeparators : SeparatorUnusable(Segments(text, k), charLimit)

\* ceil(n / d)
CeilDiv(n, d) == (n + d - 1) \div d

\* C23: separator re-attachment.  The text put in front of a re-attached
\* segment is the separator that was split on, so every character of every
\* chunk is a character of the input.
C23_SeparatorReattachment ==
    chPc = "done" =>
        \A i \in 1..Len(chChunks) :
            Range(chChunks[i].content) \subseteq Range(chText)

\* C24: fixed-size fallback.  For a text longer than charLimit for which no
\* separator is usable, chunkMarkdown returns ceil(len(text) / charLimit)
\* chunks, the k-th being text.slice(k * charLimit, (k + 1) * charLimit),
\* also when the last slice is whitespace only.
C24_FixedSizeFallback ==
    (chPc = "done" /\ Len(chText) > chLimit /\ NoSeparatorUsable(chText, chLimit)) =>
        /\ Len(chChunks) = CeilDiv(Len(chText), chLimit)
        /\ \A i \in 1..Len(chChunks) :
              chChunks[i].content = Slice(chText, (i - 1) * chLimit, i * chLimit)

---------------------------------------------------------------------------
(* Claims about the indexer, checked under SpecIndex *)

\* The call in progress has read its file.
HasRead == load.pc \notin {"idle", "readFile"}

ReturnedTrue == load.pc = "returned" /\ load.result = "true"

\* C1: idempotence.  If the last loadMarkdownFileToDb call on a file
\* completed and the file's content has not changed since that call read
\* it, the next call on the file makes no embedding call, no insert and no
\* delete, and when it returns it returns false.  This includes a file whose
\* body is empty or whitespace-only.
C1_Idempotent ==
    (HasRead /\ callLog.cleanAtRead) =>
        /\ callLog.embeds = 0
        /\ callLog.writes = 0
        /\ load.pc \in {"select", "returned", "threw"}
        /\ load.pc = "returned" => load.result = "false"

\* A second call on an unchanged file whose body is empty has returned.
C1_Witness ==
    /\ load.pc = "returned"
    /\ callLog.cleanAtRead
    /\ load.result = "false"
    /\ Trim(load.fileContent.text) = <<>>

\* C2: change detection with full replacement.  From the delete on, a call
\* that re-indexes leaves no record of the file with another checksum than
\* that of the content it read, so the old records are gone before the first
\* insert; when it returns true the file's records are exactly the chunks of
\* that content, one record per chunk; and it re-indexes only a file that
\* was not indexed with this content before, whatever happened to the
\* modification time.
C2_FullReplacement ==
    /\ (load.pc \in {"embedContent", "embedFilename", "insert"} \/ ReturnedTrue)
          => \A r \in RowsOf(load.filePath) : r.checksum = load.checksum
    /\ ReturnedTrue =>
          LET chunks == chunkMarkdown(Trim(load.fileContent.text), IndexCharLimit)
          IN  /\ {<<r.chunk_index, r.text>> : r \in RowsOf(load.filePath)}
                    = {<<i - 1, chunks[i].content>> : i \in 1..Len(chunks)}
              /\ Cardinality(RowsOf(load.filePath)) = Len(chunks)
              /\ \A r \in RowsOf(load.filePath) :
                    r.checksum = calculateSHA256(load.fileContent)
    /\ ReturnedTrue => ~callLog.cleanAtRead

\* A call that found records with another checksum has returned true, on a
\* file whose modification time had changed as well.
C2_Witness ==
    /\ ReturnedTrue
    /\ Len(load.existingNotes) > 0
    /\ RowsOf(load.filePath) # {}
    /\ mtimes[load.filePath] > 0

\* C3: record invariant.  All records of one file carry the same checksum
\* and the same filename_vector, and no two of them the same chunk_index,
\* in every state, also after calls that stopped partway.
C3_RecordInvariant ==
    \A r1, r2 \in notes :
        r1.filename = r2.filename =>
            /\ r1.checksum = r2.checksum
            /\ r1.filename_vector = r2.filename_vector
            /\ r1.id # r2.id => r1.chunk_index # r2.chunk_index

\* A call has stopped partway, leaving one record of a two-chunk file, while
\* the other file has two records.
C3_Witness ==
    /\ load.pc = "threw"
    /\ Cardinality(RowsOf(load.filePath)) = 1
    /\ Len(load.bodyChunks) = 2
    /\ \E f \in Filenames : Cardinality(RowsOf(f)) >= 2

\* C19: recovery after a crash between delete and insert.  When a re-index
\* of a changed file has stopped after the delete of the file's records and
\* before its first insert, the table holds no record of the file for as
\* long as the content stays the same and no call reads the file; and the
\* next call on the file finds no record, deletes nothing, and when it
\* returns it returns true with the records of the file being exactly the
\* chunks of the file's content, all with its checksum.
C19_RecoveryAfterCrash ==
    /\ \A f \in DOMAIN crashedEmpty : crashedEmpty[f] => RowsOf(f) = {}
    /\ (HasRead /\ callLog.afterCrash) =>
          /\ Len(load.existingNotes) = 0
          /\ load.pc # "delete"
          /\ load.pc = "returned" =>
                /\ load.result = "true"
                /\ ~callLog.dirty =>
                      LET content == files[load.filePath]
                          chunks == chunkMarkdown(Trim(content.text), IndexCharLimit)
                      IN  /\ {<<r.chunk_index, r.text>> : r \in RowsOf(load.filePath)}
                                = {<<i - 1, chunks[i].content>> : i \in 1..Len(chunks)}
                          /\ Cardinality(RowsOf(load.filePath)) = Len(chunks)
                          /\ \A r \in RowsOf(load.filePath) :
                                r.checksum = calculateSHA256(content)

\* The call after such a crash has returned true and the file, of two
\* chunks, has its two records again.
C19_Witness ==
    /\ load.pc = "returned"
    /\ callLog.afterCrash
    /\ ~callLog.dirty
    /\ load.result = "true"
    /\ Cardinality(RowsOf(load.filePath)) = 2

\* C26: embedding roles at index time.  Every stored record's text_vector is
\* the document-role embedding of its text (instruction prefix
\* 'search_document: ') and its filename_vector the document-role embedding
\* of its filename.
C26_DocumentRoles ==
    \A r \in notes :
        /\ r.text_vector = EmbeddingOf(r.text, SearchDocument)
        /\ r.filename_vector = EmbeddingOf(r.filename, SearchDocument)

\* The operations of loadMarkdownFileToDb that can be in flight: the call
\* stands at exactly one of its awaits.
InFlightOps == {"readFile", "select", "delete", "embedContent",
                "embedFilename", "insert"}
LoopOps == {"embedContent", "embedFilename", "insert"}

\* C27: strictly sequential indexing.  Within one loadMarkdownFilesFromGlob
\* run an embedding call or store write is in flight only while the loop
\* awaits the one file it has called loadMarkdownFileToDb for, so a file is
\* started only when nothing of the previous file is in flight; within the
\* file, while chunk i is embedded or inserted the records of the file are
\* exactly those of the chunks before i, the filename is embedded after the
\* text of the same chunk, and the insert after both.
C27_StrictlySequential ==
    /\ load.pc \in InFlightOps => glob.pc = "loading"
    /\ glob.pc \in {"iterate", "done", "rejected"} => load.pc = "idle"
    /\ (glob.pc = "loading" /\ load.pc \in LoopOps) =>
          /\ load.pos \in 1..Len(load.bodyChunks)
          /\ {<<r.chunk_index, r.text>> : r \in RowsOf(load.filePath)}
                = {<<i - 1, load.bodyChunks[i].content>> : i \in 1..(load.pos - 1)}
          /\ Cardinality(RowsOf(load.filePath)) = load.pos - 1
          /\ load.pc \in {"embedFilename", "insert"} =>
                load.contentEmbedding
                    = EmbeddingOf(load.bodyChunks[load.pos].content, NoPrefix)
          /\ load.pc = "insert" =>
                load.filePathEmbedding = EmbeddingOf(load.filePath, SearchDocument)

\* The run is at the second chunk of the second file it loads, the first
\* chunk's record inserted.
C27_Witness ==
    /\ glob.pc = "loading"
    /\ load.pc = "embedContent"
    /\ load.pos = 2
    /\ Cardinality(globLog.loaded) = 2
    /\ Cardinality(RowsOf(load.filePath)) = 1

\* C28: skip implies complete index.  Whenever loadMarkdownFileToDb returns
\* false, the table holds for the file exactly the chunks of the content the
\* call read, also when an earlier run on the same content failed after
\* inserting only some of the chunks.
C28_SkipImpliesComplete ==
    (load.pc = "returned" /\ load.result = "false") =>
        LET chunks == BodyChunks(extractAttrsAndBody(load.fileContent).body)
        IN  /\ {<<r.chunk_index, r.text>> : r \in RowsOf(load.filePath)}
                  = {<<i - 1, chunks[i].content>> : i \in 1..Len(chunks)}
            /\ Cardinality(RowsOf(load.filePath)) = Len(chunks)

---------------------------------------------------------------------------
(* Claims about the readFile tool, checked under SpecRead *)

\* A path lies inside the notes directory when the operating system finds it
\* at the notes directory or below.
InsideNotes(p) ==
    LET loc == Locate(p)
        dir == Locate(READ_NOTES_DIRECTORY)
    IN  Len(loc) >= Len(dir) /\ SubSeq(loc, 1, Len(dir)) = dir

\* Where a filePath argument, taken relative to the notes directory, leads.
ResolvesInside(filePath) == InsideNotes(READ_NOTES_DIRECTORY \o Slash \o filePath)

\* C29: read confinement of the readFile tool.  Every path the tool gives to
\* fs.readFile lies inside the notes directory; and for a filePath that
\* resolves outside it the tool reads no file and returns
\* {error: 'Access denied: <filePath>'}.
C29_ReadConfinement ==
    /\ \A p \in rf.reads : InsideNotes(p)
    /\ rf.pc = "reading" => InsideNotes(rf.fullPath)
    /\ (rf.pc \in {"reading", "done"} /\ ~ResolvesInside(rf.filePath)) =>
          /\ rf.pc = "done"
          /\ rf.reads = {}
          /\ rf.result.kind = "error"
          /\ rf.result.error = <<"Access denied: ">> \o rf.filePath

\* The tool was asked for ../s, a file next to the notes directory, and has
\* returned.
C29_Witness ==
    /\ rf.pc = "done"
    /\ rf.filePath = DotDot \o Slash \o <<"s">>
    /\ Locate(READ_NOTES_DIRECTORY \o Slash \o rf.filePath) \in FilesOnDisk
    /\ rf.result.kind = "error"

---------------------------------------------------------------------------
(* Claims about the chat store, checked under SpecChat *)

\* The roles of the messages a call has pushed to store.messages, in order.
PushedRoles(c) ==
    LET own == SelectSeq(chatLog.pushes, LAMBDA e : e.id[1] = c)
    IN  [i \in 1..Len(own) |-> own[i].role]

\* The call found a non-blank input and the API key.
PassedChecks(c) == ~chat[c].blankAtCall /\ apiKeySet

\* C30: chat turn shape.  A sendUserInputToLLM call that passes the
\* blank-input and API-key checks has, when it settles, pushed exactly one
\* user message and then exactly one assistant message, also when the
\* request or the stream threw, and leaves isLoading false, streamingResponse
\* empty and debugInfo null; until then it has pushed its user message only.
\* A call with blank input or without API key leaves store.error set, pushes
\* no message and does not call sendRequestToLLM.
C30_ChatTurnShape ==
    \A c \in ChatCalls :
        /\ (chat[c].pc = "settled" /\ PassedChecks(c)) =>
              /\ PushedRoles(c) = <<"user", "assistant">>
              /\ c \in chatLog.requests
              /\ ~chat[c].atSettle.isLoading
              /\ chat[c].atSettle.streamingResponse = <<>>
              /\ chat[c].atSettle.debugInfo = NoText
        /\ chat[c].pc = "streaming" =>
              /\ PassedChecks(c)
              /\ PushedRoles(c) = <<"user">>
        /\ (chat[c].pc = "settled" /\ ~PassedChecks(c)) =>
              /\ chat[c].atSettle.error # NoText
              /\ PushedRoles(c) = <<>>
              /\ c \notin chatLog.requests

\* A call whose stream threw after a chunk has settled, and a call with a
\* blank input has been refused.
C30_Witness ==
    /\ \E c \in ChatCalls :
          /\ chat[c].pc = "settled"
          /\ chat[c].outcome = "failed"
          /\ chat[c].chunkCount > 0
          /\ PushedRoles(c) = <<"user", "assistant">>
    /\ \E c \in ChatCalls :
          /\ chat[c].pc = "settled"
          /\ chat[c].outcome = "rejected"

---------------------------------------------------------------------------
(* Claims about the embedding pipeline, checked under SpecEmbed *)

\* C5: single-flight construction.  In any interleaving of generateEmbedding
\* calls the pipeline is constructed at most once, and every call that has an
\* extractor has that one.
C5_SingleFlight ==
    /\ pipelines <= 1
    /\ \A c \in Callers :
          embedCalls[c].extractor # NoExtractor => embedCalls[c].extractor = 1

---------------------------------------------------------------------------
(* Claims about the request and conversation context, checked under SpecCtx *)

RECURSIVE RequestScopeOf(_)
RequestScopeOf(t) ==
    IF t = Main THEN NoId
    ELSE IF tasks[t].kind = "request" THEN t
    ELSE RequestScopeOf(tasks[t].parent)

\* C25 as stated: every log entry carries the identifier of the request
\* scope its logging call was made in, null outside every scope.
C25_LogCorrelation ==
    logged.task # -1 => logged.requestId = RequestScopeOf(logged.task)

\* C25 amended: every log entry whose metadata (of the call or of the child
\* logger) has no requestId of its own carries the identifier of the request
\* scope its logging call was made in, null outside every scope; an entry
\* whose metadata has a requestId keeps that one.
C25_LogCorrelationUnlessGiven ==
    logged.task # -1 =>
        logged.requestId =
            IF logged.meta = NoId THEN RequestScopeOf(logged.task) ELSE logged.meta

\* A unit of a request scope logs after an await while another request
\* scope is suspended, and its entry has its own identifier.
C25_Witness ==
    \E u, v \in Units :
        /\ u # v
        /\ logged.task = u
        /\ logged.meta = NoId
        /\ logged.requestId = u
        /\ tasks[u].kind = "request"
        /\ tasks[u].awaits >= 1
        /\ tasks[v].kind = "request"
        /\ tasks[v].pc = "awaiting"

---------------------------------------------------------------------------
(* Claims about executeRipgrepSearch, checked under SpecRg *)

\* The close event has been delivered to its listener.
CloseDelivered == rgPc = "spawned" /\ ~child.closePending

\* The text e occurs in the text m.
Contains(m, e) ==
    \E i \in 1..(Len(m) + 1) : SubSeq(m, i, i + Len(e) - 1) = e

\* C8: exit-code outcomes.  After a close with exit code 1 the promise is
\* fulfilled with {results: ["No matches found"], totalMatches: 0,
\* limited: false}; after a close with any code other than 0 and 1, null
\* included, it is rejected with an error whose message contains the captured
\* stderr text.
C8_ExitCodeOutcomes ==
    CloseDelivered =>
        /\ child.code = "1" =>
              rgPromise = Fulfilled([results |-> <<NoMatchesFound>>,
                                     totalMatches |-> 0, limited |-> FALSE])
        /\ child.code \notin {"0", "1"} =>
              /\ rgPromise.state = "rejected"
              /\ Contains(rgPromise.value.message, errorOutput)

\* A signal ended the child (null code) after it wrote to stderr and stdout,
\* and the call is rejected.
C8_Witness ==
    /\ CloseDelivered
    /\ child.code = "null"
    /\ errorOutput = <<"e", "r">>
    /\ output # <<>>
    /\ rgPromise.state = "rejected"

\* The non-blank lines the child wrote, in order.
OutputLines == NonBlank(SplitLines(output, <<>>))

\* C9: truncation.  After a close with exit code 0 and N >= 1 non-blank
\* output lines, totalMatches = N; if N > maxResults the results are the
\* first maxResults lines followed by one summary line naming N - maxResults
\* omitted matches and limited is true; otherwise the results are exactly the
\* N lines in order and limited is false.
C9_Truncation ==
    (CloseDelivered /\ child.code = "0" /\ Len(OutputLines) >= 1) =>
        LET N == Len(OutputLines)
            M == maxResults
        IN  /\ rgPromise.state = "fulfilled"
            /\ rgPromise.value.totalMatches = N
            /\ IF N > M
               THEN /\ rgPromise.value.results =
                          Append(SubSeq(OutputLines, 1, M), MoreResultsLine(N - M, M))
                    /\ rgPromise.value.limited = TRUE
               ELSE /\ rgPromise.value.results = OutputLines
                    /\ rgPromise.value.limited = FALSE

\* C10: spawn failure.  When the child cannot be started the promise is never
\* fulfilled, it is rejected as soon as the first of 'error' and 'close' is
\* delivered, and once settled it keeps its first outcome whatever event
\* follows.
C10_SpawnFailureSettledOnce ==
    (rgPc = "spawned" /\ child.failed) =>
        /\ rgPromise.state # "fulfilled"
        /\ (~child.closePending \/ ~child.errorPending) => rgPromise.state = "rejected"
        /\ rgPromise.state # "pending" => rgPromise = rgFirst

\* The spawn failed, 'close' was delivered before 'error', both are
\* delivered, and the promise still carries the rejection of 'close'.
C10_Witness ==
    /\ rgPc = "spawned" /\ child.failed
    /\ ~child.closePending /\ ~child.errorPending
    /\ rgPromise.state = "rejected"
    /\ rgPromise.value # SpawnError

\* The fixed flags, in the order of the argument list.
FixedFlags == <<"--line-number", "--with-filename", "--no-heading", "--color=never">>

\* C11: fixed search root.  The argument list given to the ripgrep process is
\* the caller's flags in order, the four fixed flags, the pattern, and the
\* notes directory as its last element, whatever the pattern, the flags and
\* maxResults are.
C11_FixedSearchRoot ==
    rgPc = "spawned" =>
        LET n == Len(rgOptions.flags)
        IN  /\ Len(rgArgs) = n + 6
            /\ SubSeq(rgArgs, 1, n) = rgOptions.flags
            /\ SubSeq(rgArgs, n + 1, n + 4) = FixedFlags
            /\ rgArgs[n + 5] = rgOptions.pattern
            /\ rgArgs[Len(rgArgs)] = NOTES_DIRECTORY

\* A call whose pattern and flags are themselves paths and option-like
\* strings has spawned the child.
C11_Witness ==
    /\ rgPc = "spawned"
    /\ rgOptions.pattern = "--files"
    /\ rgOptions.flags = <<"/etc", "-i">>
    /\ maxResults = 0
    /\ rgArgs[Len(rgArgs)] = NOTES_DIRECTORY

---------------------------------------------------------------------------
(* Claims about queryDocuments, checked under SpecQuery *)

\* The merged, deduplicated rows of the two channels, before the final sort
\* and truncation.
MergedRows == distinctBy(filenameResults \o contentResults)

\* The ids of the rows of a list.
IdsOf(rows) == {rows[i].id : i \in 1..Len(rows)}

\* C12: bounded result size.  A returned list has at most limit entries,
\* also when each channel contributed limit records of its own.
C12_BoundedResultSize ==
    qPc = "returned" => Len(qResult) <= qArgs.limit

\* Each channel has contributed limit >= 1 rows, no record is in both, and the
\* call has returned.
C12_Witness ==
    /\ qPc = "returned"
    /\ qArgs.limit >= 1
    /\ Len(filenameResults) = qArgs.limit
    /\ Len(contentResults) = qArgs.limit
    /\ IdsOf(filenameResults) \cap IdsOf(contentResults) = {}
    /\ Len(qResult) = qArgs.limit

\* C13: ranking order.  A returned list is ordered by non-increasing
\* similarity and consists of the limit most similar rows of the merged,
\* deduplicated rows of the two channels.
C13_RankingOrder ==
    qPc = "returned" =>
        /\ \A i, j \in 1..Len(qResult) :
              i < j => qResult[i].similarity >= qResult[j].similarity
        /\ Range(qResult) \subseteq Range(MergedRows)
        /\ Cardinality(Range(qResult)) =
              IF Len(MergedRows) < qArgs.limit THEN Len(MergedRows) ELSE qArgs.limit
        /\ \A m \in Range(MergedRows) \ Range(qResult), r \in Range(qResult) :
              m.similarity <= r.similarity

\* The channels gave three rows of different records, the less similar first,
\* and the two most similar were returned, the most similar first.
C13_Witness ==
    /\ qPc = "returned"
    /\ qArgs.limit = 2
    /\ Len(MergedRows) = 3
    /\ MergedRows[1].similarity < MergedRows[3].similarity
    /\ Len(qResult) = 2
    /\ qResult[1].similarity > qResult[2].similarity

\* C14: merge and dedup.  No two entries of a returned list have the same id,
\* and every record that is in the rows of both channels is exactly once in
\* the merged list.
C14_MergeDedup ==
    qPc = "returned" =>
        /\ \A i, j \in 1..Len(qResult) : i # j => qResult[i].id # qResult[j].id
        /\ \A id \in IdsOf(filenameResults) \cap IdsOf(contentResults) :
              Cardinality({j \in 1..Len(MergedRows) : MergedRows[j].id = id}) = 1

\* A record is in the rows of both channels and once in the returned list.
C14_Witness ==
    /\ qPc = "returned"
    /\ \E id \in IdsOf(filenameResults) \cap IdsOf(contentResults) :
          Cardinality({j \in 1..Len(qResult) : qResult[j].id = id}) = 1

\* The records above the threshold of at least one channel.
QualifyingIds ==
    {qStore[i].id : i \in {j \in 1..Len(qStore) :
        \/ qStore[j].filename_similarity > qArgs.filenameSimilarityThreshold
        \/ qStore[j].content_similarity > qArgs.contentSimilarityThreshold}}

\* C15: threshold filtering.  Every returned row has a similarity strictly
\* above the threshold of the channel it was taken from; a record at or below
\* both thresholds is never returned; and when at most limit records qualify,
\* all of them are returned.
C15_ThresholdFiltering ==
    qPc = "returned" =>
        /\ \A r \in Range(qResult) :
              \/ /\ r \in Range(filenameResults)
                 /\ r.similarity > qArgs.filenameSimilarityThreshold
              \/ /\ r \in Range(contentResults)
                 /\ r.similarity > qArgs.contentSimilarityThreshold
        /\ IdsOf(qResult) \subseteq QualifyingIds
        /\ Cardinality(QualifyingIds) <= qArgs.limit => IdsOf(qResult) = QualifyingIds

\* Three records of content similarity 2, 1 and 0, a content threshold of 0,
\* no record above the filename threshold: the first two are returned, the
\* most similar first.
C15_Witness ==
    /\ qPc = "returned"
    /\ Len(qStore) = 3
    /\ {qStore[i].content_similarity : i \in 1..3} = {0, 1, 2}
    /\ qArgs.contentSimilarityThreshold = 0
    /\ filenameResults = <<>>
    /\ Len(qResult) = 2
    /\ qResult[1].similarity = 2
    /\ qResult[2].similarity = 1

\* The rows of a channel are the limit most similar records above its
\* threshold.
TopOfChannel(rows, channel, threshold) ==
    LET qualifying == {r \in {SelectedRow(qStore[i], channel) : i \in 1..Len(qStore)} :
                          r.similarity > threshold}
    IN  \A q \in qualifying \ Range(rows), r \in Range(rows) :
            r.similarity >= q.similarity

\* C16: per-channel top-limit.  Each channel query returns the limit most
\* similar records above its threshold; with a limit of at least 1 the most
\* similar qualifying record of a channel is among its rows.
C16_PerChannelTopLimit ==
    /\ qPc \in {"content", "returned"} =>
          TopOfChannel(filenameResults, "filename", qArgs.filenameSimilarityThreshold)
    /\ qPc = "returned" =>
          TopOfChannel(contentResults, "content", qArgs.contentSimilarityThreshold)

\* C17: blank query.  A call with an empty or white-space-only query throws
\* 'Query is required' and has issued no embedding call and no store query.
C17_BlankQueryRejected ==
    (qPc # "idle" /\ IsBlank(qArgs.query)) =>
        /\ qPc = "threw"
        /\ qResult = "Query is required"
        /\ qLog.embeds = 0
        /\ qLog.selects = 0

\* The query is white space only, the store is not empty, the call has thrown.
C17_Witness ==
    /\ qPc = "threw"
    /\ qArgs.query = <<" ", NL>>
    /\ Len(qStore) >= 1
    /\ qResult = "Query is required"


---------------------------------------------------------------------------
(* Claims about the glob walk, checked under SpecGlob *)

\* The notes a run is to index: the matched entries that are regular files
\* with extension .md and are no drawings.
MatchedNotes == GlobMatches(glob.globPath) \cap GlobFiles

\* The matched notes the table held, when the run started, with the checksum
\* of their present content.
UnchangedNotes ==
    {f \in MatchedNotes :
        \E r \in globLog.startNotes :
            r.filename = f /\ r.checksum = calculateSHA256(files[f])}

\* C18: glob walk counts.  When a loadMarkdownFilesFromGlob run ends without
\* a failure, count + skipped is the number of matched paths that are
\* regular .md files and no *.excalidraw.md files, count is the number of
\* those that were new or had changed content and skipped the number of
\* those that were unchanged; and no directory, non-.md file or
\* *.excalidraw.md file is ever given to loadMarkdownFileToDb, the only place
\* where embeddings are made and the table is accessed.
C18_GlobWalkCounts ==
    /\ glob.pc = "done" =>
          /\ glob.count + glob.skipped = Cardinality(MatchedNotes)
          /\ glob.skipped = Cardinality(UnchangedNotes)
          /\ glob.count = Cardinality(MatchedNotes \ UnchangedNotes)
          /\ globLog.loaded = MatchedNotes
    /\ globLog.loaded \subseteq GlobFiles
    /\ load.pc # "idle" => load.filePath \in GlobFiles /\ glob.pc = "loading"
    /\ (callLog.embeds > 0 \/ callLog.writes > 0) => load.filePath \in GlobFiles

\* A run over the directory, the text file, the drawing and three notes, of
\* which one was new, one unchanged and one changed, has ended with
\* count = 2 and skipped = 1.
C18_Witness ==
    /\ glob.pc = "done"
    /\ glob.globPath = <<"*">>
    /\ glob.count = 2
    /\ glob.skipped = 1
    /\ \E f \in MatchedNotes : \A r \in globLog.startNotes : r.filename # f
    /\ \E f \in MatchedNotes \ UnchangedNotes :
          \E r \in globLog.startNotes : r.filename = f

=============================================================================
